---- MODULE Spec2Model ----
(***************************************************************************)
(* Verification model of the dashboard-api content rotation and caching    *)
(* subsystem: the CacheManager wrapper around node-cache                   *)
(* (src/utils/cacheManager.js), the artwork pool builder and the rotation  *)
(* slot lookup (src/services/artService.js), the dashboard aggregator, and *)
(* the server around them: the ModeManager, the dashboard and profile      *)
(* routes, the WebSocket handler and the refresh scheduler.                *)
(*                                                                         *)
(* Time is the wall clock Date.now() in milliseconds.  Every `await` of    *)
(* the code is a point where another request may run, so each async        *)
(* function is cut into one action per stretch of code between awaits.     *)
(***************************************************************************)
EXTENDS Integers, Sequences, FiniteSets, TLC

VARIABLES
  now,      \* Date.now(), in ms
  data,     \* NodeCache store: key -> [v: value, t: expiry instant in ms, 0 = never]
  lastSet,  \* history: key -> the last CacheManager.set of the key not yet deleted or flushed
  gos,      \* the in-flight CacheManager.getOrSet call of each caller
  bld,      \* a fetchArtworkPool call: its loop variables and where it stands
  rot,      \* the in-flight getArtworkByOrientation call of each caller
  rfr,      \* a refreshArtworkPool call
  agg,      \* an aggregateDashboard call
  tsk,      \* a filterUrgentTasks call: its argument and what it returned
  mm,       \* the ModeManager singleton: current mode, last change, change history
  ws,       \* wsHandler: the client set, its update timer, what was sent to each client
  sch,      \* refreshScheduler: its cron task and broadcast handler
  http,     \* the HTTP request being served and its response
  pick      \* a pickWeightedSource call: the entries, the draw and the source returned

vars == <<now, data, lastSet, gos, bld, rot, rfr, agg, tsk, mm, ws, sch, http, pick>>

----------------------------------------------------------------------------
(* Bounds of the model *)

\* the clock advances in steps of TickMs, up to MaxNow
TickMs == 500
MaxNow == 2500
\* cacheConfig.default.ttl (seconds): parseInt(process.env.CACHE_TTL) || 300,
\* an environment setting; the model runs with a short default
StdTTL == 2
\* artConfig.poolSize (12 as shipped): the model builds small pools
POOL_SIZE == 2
\* artConfig.poolTtlSeconds (3600 as shipped)
ARTWORK_CACHE_TTL == 2
\* artConfig.rotationIntervals (300 and 420 seconds as shipped)
IntervalPortrait == 1
IntervalLandscape == 2
IntervalTv == 2

MsPerSec == 1000

\* the instant the process starts: Date.now() is far from 0, so that no
\* expiry instant computed from it is 0, which node-cache reads as "never"
StartNow == 10 * MsPerSec

----------------------------------------------------------------------------
(* Values *)

\* every value is a record, tagged with its kind
NULL == [kind |-> "null"]
UNDEF == [kind |-> "undefined"]
Val(x) == [kind |-> "value", x |-> x]
\* a ttl argument: left out (`ttl = null`) or a number of seconds
NoTtl == [given |-> FALSE, s |-> 0]
Ttl(n) == [given |-> TRUE, s |-> n]

Callers == {"c1", "c2"}
CacheKeys == {"k1", "k2"}
Values == {Val("a"), Val("b")}
\* what a fetchFunction may resolve to
FetchResults == Values \cup {NULL, UNDEF}
\* ttl arguments (seconds) given to set / getOrSet
TtlArgs == {NoTtl, Ttl(0), Ttl(-1), Ttl(1)}

Put(f, k, x) == [y \in DOMAIN f \cup {k} |-> IF y = k THEN x ELSE f[y]]
Remove(f, k) == [y \in DOMAIN f \ {k} |-> f[y]]
Empty == [y \in {} |-> NULL]

----------------------------------------------------------------------------
(* node-cache as CacheManager uses it: stdTTL, deleteOnExpire: true *)

\* JavaScript truthiness of the ttl argument in `ttl ? ... : ...`
Truthy(ttl) == ttl.given /\ ttl.s # 0

\* this.cache.set(key, value, ttl) / this.cache.set(key, value): the entry
\* written at instant t0; ttl 0 means unlimited, no ttl means stdTTL
Wrap(value, ttl, t0) ==
  [v |-> value,
   t |-> IF ttl.given /\ ttl.s = 0 THEN 0
         ELSE IF ttl.given THEN t0 + ttl.s * MsPerSec
         ELSE IF StdTTL = 0 THEN 0
         ELSE t0 + StdTTL * MsPerSec]

\* an entry is still valid at instant t: unlimited, or not past its expiry
CheckNoExpiry(e, t) == TRUE
Check(e, t) == ~(e.t # 0 /\ e.t < t)

\* this.cache.get(key): the value, or undefined; an expired entry is deleted
NodeGet(d, key, t) ==
  IF key \in DOMAIN d /\ Check(d[key], t)
    THEN [value |-> d[key].v, data |-> d]
    ELSE [value |-> UNDEF,
          data |-> IF key \in DOMAIN d THEN Remove(d, key) ELSE d]

\* CacheManager.get(key): undefined becomes null
get(d, key, t) ==
  LET r == NodeGet(d, key, t)
  IN [value |-> IF r.value = UNDEF THEN NULL ELSE r.value, data |-> r.data]

\* CacheManager.set(key, value, ttl = null)
setPassTtl(d, key, value, ttl, t0) == Put(d, key, Wrap(value, ttl, t0))
setIfAbsent(d, key, value, ttl, t0) ==
  IF key \in DOMAIN d /\ Check(d[key], t0) THEN d
  ELSE Put(d, key, Wrap(value, IF Truthy(ttl) THEN ttl ELSE NoTtl, t0))
set(d, key, value, ttl, t0) ==
  IF Truthy(ttl) THEN Put(d, key, Wrap(value, ttl, t0))
  ELSE Put(d, key, Wrap(value, NoTtl, t0))

\* CacheManager.del(key)
del(d, key) == IF key \in DOMAIN d THEN Remove(d, key) ELSE d

\* CacheManager.flush()
flush(d) == Empty

\* node-cache's periodic check (checkperiod): every expired entry is deleted
checkData(d, t) == [k \in {x \in DOMAIN d : Check(d[x], t)} |-> d[k]]

\* getOrSet stores the fetched value unless it is null or undefined
CacheableNotNull(value) == value # NULL
Cacheable(value) == value # NULL /\ value # UNDEF

\* getOrSet's catch block: log and rethrow
OnFetchErrorSwallow(call) == [call EXCEPT !.pc = "done", !.value = NULL]
OnFetchError(call) == [call EXCEPT !.pc = "threw"]

----------------------------------------------------------------------------
(* artService.fetchArtworkPool: the weighted multi-source pool builder *)

\* artConfig.sources, in configured order
ArtSources ==
  << [key |-> "artic", enabled |-> TRUE, weight |-> 35],
     [key |-> "met", enabled |-> TRUE, weight |-> 35],
     [key |-> "cleveland", enabled |-> TRUE, weight |-> 20],
     [key |-> "giphy", enabled |-> FALSE, weight |-> 0] >>

\* enabledSources(): the enabled entries as {key, weight: cfg.weight || 1}
IsEnabledAlways(cfg) == TRUE
IsEnabled(cfg) == cfg.enabled
enabledSources(srcs) ==
  LET on == SelectSeq(srcs, IsEnabled)
  IN [i \in 1..Len(on) |->
        [key |-> on[i].key,
         weight |-> IF on[i].weight = 0 THEN 1 ELSE on[i].weight]]

RECURSIVE SumWeights(_, _)
SumWeights(entries, i) ==
  IF i > Len(entries) THEN 0 ELSE entries[i].weight + SumWeights(entries, i + 1)

\* pickWeightedSource's totalWeight
totalWeight(entries) == SumWeights(entries, 1)

\* pickWeightedSource(sourceEntries) for the draw `roll` = Math.random() * totalWeight:
\* the first entry whose cumulative weight reaches the roll, else the first entry
RECURSIVE PickFrom(_, _, _, _)
PickFrom(entries, i, cursor, roll) ==
  IF i > Len(entries) THEN entries[1].key
  ELSE IF roll <= cursor + entries[i].weight THEN entries[i].key
  ELSE PickFrom(entries, i + 1, cursor + entries[i].weight, roll)

pickWeightedSource(entries, roll) == PickFrom(entries, 1, 0, roll)

\* the draws: Math.random() * totalWeight lies in [0, totalWeight). The weights
\* are integers, so every draw in (k - 1, k] selects as the draw k does: 0 and
\* the integers up to totalWeight stand for all of them
Rolls(entries) == 0..totalWeight(entries)

\* a normalized artwork as the source adapters return it
Art(source, id) == [kind |-> "artwork", source |-> source, id |-> id, imageUrl |-> "url"]
Throw == [kind |-> "throw"]

\* an item without an image url, which the loop's `!artwork.imageUrl` test skips
Imageless == [kind |-> "artwork", source |-> "cleveland", id |-> "2", imageUrl |-> ""]

\* what the upstream of a source can hold for the model: one work at artic,
\* one at met with the same id, an item without image at cleveland, and
\* nothing at a key fetchFromSource does not know
SourceItems(sourceKey) ==
  CASE sourceKey = "artic" -> {Art("artic", "1")}
    [] sourceKey = "met" -> {Art("met", "1")}
    [] sourceKey = "cleveland" -> {Imageless}
    [] OTHER -> {}

\* fetchFromSource(sourceKey, orientation, filters): an artwork of that source,
\* or an exception (network error, empty result, unknown source)
Responses(sourceKey) == SourceItems(sourceKey) \cup {Throw}

\* const dedupeKey = `${artwork.source}:${artwork.id}`
DedupeKey(artwork) == artwork.source \o ":" \o artwork.id

\* seen.add(dedupeKey)
RememberNothing(seen, key) == seen
Remember(seen, key) == seen \cup {key}

\* the loop variables of fetchArtworkPool; `sleep` tells whether the pass
\* just made ends in `await sleep(RETRY_DELAY)`, `skipped` whether some pass
\* left by `continue`
BuildStart == [attempt |-> 0, artworks |-> << >>, seen |-> {}, sleep |-> FALSE,
               skipped |-> FALSE]

\* const maxAttempts = poolSize * 4
maxAttemptsOnePerItem(poolSize) == poolSize
maxAttemptsFivePerItem(poolSize) == poolSize * 5
maxAttempts(poolSize) == poolSize * 4

\* the loop condition: attempt < maxAttempts && artworks.length < poolSize
Looping(st, poolSize) ==
  st.attempt < maxAttempts(poolSize) /\ Len(st.artworks) < poolSize

\* if (artworks.length < poolSize) await sleep(RETRY_DELAY), after a push
SleepAfterAddAlways(count, poolSize) == TRUE
SleepAfterAdd(count, poolSize) == count < poolSize

\* one pass of the loop body with the response of the picked source
AttemptBody(st, poolSize, resp) ==
  IF resp.kind = "throw"
    THEN [st EXCEPT !.attempt = @ + 1, !.sleep = TRUE]
  ELSE IF resp.imageUrl = "" \/ DedupeKey(resp) \in st.seen
    THEN [st EXCEPT !.attempt = @ + 1, !.sleep = FALSE, !.skipped = TRUE]
  ELSE [attempt |-> st.attempt + 1,
        artworks |-> Append(st.artworks, resp),
        seen |-> Remember(st.seen, DedupeKey(resp)),
        sleep |-> SleepAfterAdd(Len(st.artworks) + 1, poolSize),
        skipped |-> st.skipped]

\* after the loop: throw when nothing was collected, else return the artworks
OutcomeNeverThrows(st) == [kind |-> "pool", items |-> st.artworks]
Outcome(st) ==
  IF Len(st.artworks) = 0 THEN Throw
  ELSE [kind |-> "pool", items |-> st.artworks]

\* a fetchArtworkPool call: artConfig.sources as it runs, the source picked
\* by the last pass, and the result once it is over
IdleBuild == [pc |-> "idle", poolSize |-> 0, sources |-> << >>, picked |-> "-",
              st |-> BuildStart, out |-> NULL]


----------------------------------------------------------------------------
(* artService.getArtworkByOrientation: the rotation slot lookup *)

\* every result fetchArtworkPool(POOL_SIZE, ...) can end with, over all draws
\* and all upstream responses: the loop run from BuildStart to its end
RECURSIVE BuildReach(_, _, _)
BuildReach(S, poolSize, entries) ==
  LET T == S \cup
             {AttemptBody(st, poolSize, resp) :
                st \in {x \in S : Looping(x, poolSize)},
                resp \in UNION {Responses(pickWeightedSource(entries, roll)) :
                                  roll \in Rolls(entries)}}
  IN IF T = S THEN S ELSE BuildReach(T, poolSize, entries)

fetchArtworkPoolOutcomes(poolSize, srcs) ==
  IF Len(enabledSources(srcs)) = 0 THEN {Throw}
  ELSE {Outcome(st) :
          st \in {x \in BuildReach({BuildStart}, poolSize, enabledSources(srcs)) :
                    ~Looping(x, poolSize)}}

BuildOutcomes == fetchArtworkPoolOutcomes(POOL_SIZE, ArtSources)

FALLBACK_ARTWORK == NULL

\* ROTATION_INTERVALS[orientation] || ROTATION_INTERVALS.landscape
ROTATION_INTERVALS(orientation) ==
  CASE orientation = "portrait" -> IntervalPortrait
    [] orientation = "tv" -> IntervalTv
    [] OTHER -> IntervalLandscape

\* Math.floor(now / (rotationInterval * 1000))
rotationSlot(orientation, t) == t \div (ROTATION_INTERVALS(orientation) * MsPerSec)

\* filters: {} or {styles: [...]}
NoFilters == [given |-> FALSE, styles |-> << >>]
Styles(list) == [given |-> TRUE, styles |-> list]

\* styles.join('-')
RECURSIVE Join(_, _)
Join(list, i) ==
  IF i > Len(list) THEN ""
  ELSE IF i = Len(list) THEN list[i]
  ELSE list[i] \o "-" \o Join(list, i + 1)

\* filters.styles ? `:${filters.styles.join('-')}` : ''
filterKey(filters) == IF filters.given THEN ":" \o Join(filters.styles, 1) ELSE ""

\* `artwork:rotation:${orientation}${filterKey}:${rotationSlot}`
cacheKey(orientation, filters, slot) ==
  "artwork:rotation:" \o orientation \o filterKey(filters) \o ":" \o ToString(slot)

\* `artwork:pool:${orientation}${filterKey}`
poolKey(orientation, filters) == "artwork:pool:" \o orientation \o filterKey(filters)

\* !artworkPool || !artworkPool.length is false: a cached, non-empty pool
HasPoolNever(v) == FALSE
HasPool(v) == v # NULL /\ Len(v.items) > 0

\* rotationSlot % artworkPool.length
poolIndexFirst(slot, len) == 0
poolIndex(slot, len) == slot % len

\* artworkPool[poolIndex]; on an empty array the index is NaN and the element
\* undefined
PickFromPool(pool, slot) ==
  IF Len(pool.items) = 0 THEN UNDEF
  ELSE pool.items[poolIndex(slot, Len(pool.items)) + 1]

\* the catch block: the first artwork of a cached pool, else the fallback
CatchResultNoPool(cachedPool) == FALLBACK_ARTWORK
CatchResult(cachedPool) ==
  IF HasPool(cachedPool) THEN cachedPool.items[1] ELSE FALLBACK_ARTWORK

\* a getArtworkByOrientation call: where it stands, its arguments, its
\* rotation slot, what it returned, whether through the catch block, and
\* whether it began after the other caller's call of the same orientation,
\* filters and slot had returned and while that caller still holds the result
IdleRot == [pc |-> "idle", orientation |-> "-", filters |-> NoFilters, slot |-> 0,
            result |-> NULL, fb |-> FALSE, after |-> FALSE]

----------------------------------------------------------------------------
(* config/modes.js: the modes and getMode *)

\* a mode name is a string, kept as the sequence of its characters
UpperCase == <<"A", "B", "C", "D", "E", "F", "G", "H", "I", "J", "K", "L", "M",
               "N", "O", "P", "Q", "R", "S", "T", "U", "V", "W", "X", "Y", "Z">>
LowerCase == <<"a", "b", "c", "d", "e", "f", "g", "h", "i", "j", "k", "l", "m",
               "n", "o", "p", "q", "r", "s", "t", "u", "v", "w", "x", "y", "z">>

\* the lower-case letter of each upper-case letter
LowerOf ==
  [ch \in {UpperCase[i] : i \in 1..Len(UpperCase)} |->
     LowerCase[CHOOSE i \in 1..Len(UpperCase) : UpperCase[i] = ch]]

ToLowerChar(ch) == IF ch \in DOMAIN LowerOf THEN LowerOf[ch] ELSE ch

\* modeName.toLowerCase()
toLowerCase(name) == [i \in 1..Len(name) |-> ToLowerChar(name[i])]

\* the string of a sequence of characters
RECURSIVE StrFrom(_, _)
StrFrom(name, i) == IF i > Len(name) THEN "" ELSE name[i] \o StrFrom(name, i + 1)
Str(name) == StrFrom(name, 1)

\* an entry of MODES
Mode(name, weather, transit, calendar, tasks, nextEvent, urgentTasksOnly, artStyles) ==
  [kind |-> "mode", name |-> name,
   includes |-> [weather |-> weather, transit |-> transit, calendar |-> calendar,
                 tasks |-> tasks, nextEvent |-> nextEvent,
                 urgentTasksOnly |-> urgentTasksOnly],
   artStyles |-> artStyles]

GalleryStyles ==
  Styles(<<"Cubism", "Expressionism", "Surrealism", "Abstract", "Minimalism",
           "Constructivism", "Symbolism", "Suprematism", "Bauhaus">>)

\* const MODES = {...}: the own properties (a flag left out reads as false,
\* artStyles left out as no filters)
MODES ==
  [personal |-> Mode("Personal", TRUE, TRUE, TRUE, TRUE, TRUE, FALSE, NoFilters),
   guest |-> Mode("Guest", TRUE, TRUE, FALSE, FALSE, FALSE, FALSE, NoFilters),
   transit |-> Mode("Transit", FALSE, TRUE, FALSE, FALSE, FALSE, FALSE, NoFilters),
   morning |-> Mode("Morning", TRUE, TRUE, FALSE, TRUE, TRUE, TRUE, NoFilters),
   work |-> Mode("Work", FALSE, FALSE, TRUE, TRUE, TRUE, FALSE, NoFilters),
   gallery |-> Mode("Gallery", TRUE, TRUE, FALSE, FALSE, FALSE, FALSE, GalleryStyles)]

\* what MODES inherits from Object.prototype under an all-lower-case name
InheritedKeys == {"constructor", "__proto__"}
Inherited(key) == [kind |-> "inherited", name |-> key]

\* MODES[key]: an own property, else one inherited from Object.prototype,
\* else undefined
Property(obj, key) ==
  IF key \in DOMAIN obj THEN obj[key]
  ELSE IF key \in InheritedKeys THEN Inherited(key)
  ELSE UNDEF

\* getMode(modeName)
getMode(modeName) ==
  LET mode == Property(MODES, Str(toLowerCase(modeName)))
  IN IF mode = UNDEF THEN MODES.personal ELSE mode

\* isValidMode(modeName): MODES.hasOwnProperty(modeName?.toLowerCase())
isValidModeAny(modeName) == TRUE
isValidMode(modeName) == Str(toLowerCase(modeName)) \in DOMAIN MODES

----------------------------------------------------------------------------
(* services/dashboardAggregator.js: the pure parts *)

\* moment().add(24, 'hours')
HourMs == 3600000
UrgentHours == 24

\* stable sort of a sequence of records by the number in `field`
\* (Array.prototype.sort with the comparator a.diff(b))
RECURSIVE InsertByField(_, _, _)
InsertByField(sorted, x, field) ==
  IF sorted = << >> THEN <<x>>
  ELSE IF sorted[Len(sorted)][field] <= x[field] THEN Append(sorted, x)
  ELSE Append(InsertByField(SubSeq(sorted, 1, Len(sorted) - 1), x, field),
              sorted[Len(sorted)])

RECURSIVE SortPrefix(_, _, _)
SortPrefix(seq, n, field) ==
  IF n = 0 THEN << >> ELSE InsertByField(SortPrefix(seq, n - 1, field), seq[n], field)

SortByField(seq, field) == SortPrefix(seq, Len(seq), field)

\* a calendar event: start, and end where the event has one
Event(id, start, hasEnd, end) ==
  [id |-> id, start |-> start, hasEnd |-> hasEnd, end |-> end]

\* the filter of getNextEvent: the end is after now, or without an end the
\* start is after now
IsUpcoming(event, t) == IF event.hasEnd THEN event.end > t ELSE event.start > t

\* getNextEvent(events) at the instant t
getNextEvent(events, t) ==
  IF Len(events) = 0 THEN NULL
  ELSE LET upcomingEvents == SortByField(SelectSeq(events, LAMBDA e : IsUpcoming(e, t)), "start")
       IN IF Len(upcomingEvents) > 0 THEN upcomingEvents[1] ELSE NULL

\* a task: completed flag, status, and the due instant where it has one
Task(id, completed, status, hasDue, due) ==
  [id |-> id, completed |-> completed, status |-> status, hasDue |-> hasDue, due |-> due]

\* the filter of filterUrgentTasks
IsUrgentWithinWindow(task, t) ==
  /\ ~(task.completed \/ task.status = "completed")
  /\ task.hasDue
  /\ task.due > t /\ task.due < t + UrgentHours * HourMs
IsUrgent(task, t) ==
  /\ ~(task.completed \/ task.status = "completed")
  /\ task.hasDue
  /\ task.due < t + UrgentHours * HourMs

\* filterUrgentTasks(tasks) at the instant t
filterUrgentTasks(tasks, t) ==
  IF Len(tasks) = 0 THEN << >>
  ELSE SortByField(SelectSeq(tasks, LAMBDA task : IsUrgent(task, t)), "due")

\* obj?.[name] || dflt
Field(obj, name, dflt) == IF name \in DOMAIN obj THEN obj[name] ELSE dflt

\* what a fetch wrapper returns: {success: true, data} or
\* {success: false, error, data: null or []}
Fetched(d) == [success |-> TRUE, data |-> d]
FetchFailed(message, d) == [success |-> FALSE, error |-> message, data |-> d]

\* formatWeatherData(weatherResult)
formatWeatherData(weatherResult) ==
  IF ~weatherResult.success \/ weatherResult.data = NULL THEN NULL
  ELSE LET weather == weatherResult.data
       IN [temp |-> weather.temp, condition |-> weather.condition,
           feelsLike |-> weather.feelsLike, humidity |-> weather.humidity,
           high |-> weather.high, low |-> weather.low,
           icon |-> weather.icon, description |-> weather.description]

\* formatTransitData(transitResult)
formatTransitData(transitResult) ==
  IF ~transitResult.success \/ transitResult.data = NULL THEN NULL
  ELSE LET r77 == transitResult.data.buses.routes.r77
           lines == transitResult.data.trains.lines
       IN [buses |-> [east |-> Field(r77, "eastbound", << >>),
                      west |-> Field(r77, "westbound", << >>)],
           red |-> [north |-> Field(lines.red, "north", << >>),
                    south |-> Field(lines.red, "south", << >>)],
           brown |-> [north |-> Field(lines.brown, "north", << >>),
                      south |-> Field(lines.brown, "south", << >>)]]

----------------------------------------------------------------------------
(* services/dashboardAggregator.js: the services behind the fetches *)

\* the state of an upstream: whether a request to it succeeds, and what it holds
Upstream(ok, payload) == [ok |-> ok, payload |-> payload]

\* weatherService.getCurrentWeather(): the formatted weather, or the
\* fallback weather when the request fails (never an exception)
WeatherOk ==
  [temp |-> Val(70), condition |-> "Clear", feelsLike |-> Val(68),
   humidity |-> Val(40), high |-> Val(75), low |-> Val(60), icon |-> "01d",
   description |-> "clear sky", cityName |-> "Chicago"]
FALLBACK_WEATHER ==
  [temp |-> NULL, condition |-> "Unavailable", feelsLike |-> NULL,
   humidity |-> NULL, high |-> NULL, low |-> NULL, icon |-> "01d",
   description |-> "Weather data temporarily unavailable", error |-> TRUE]
getCurrentWeather(up) == IF up.ok THEN WeatherOk ELSE FALLBACK_WEATHER

\* cacheConfig.weather.ttl, in seconds
CACHE_TTL == 600

\* {...FALLBACK_WEATHER, timestamp: new Date().toISOString()}
FallbackWeatherAt(t) ==
  [temp |-> NULL, condition |-> "Unavailable", feelsLike |-> NULL,
   humidity |-> NULL, high |-> NULL, low |-> NULL, icon |-> "01d",
   description |-> "Weather data temporarily unavailable", error |-> TRUE,
   timestamp |-> t]

\* the fetchFunction getCurrentWeather hands to getOrSet: the formatted
\* weather, or from its catch block the fallback record
weatherProducerNoFallback(up, t) == IF up.ok THEN WeatherOk ELSE NULL
weatherProducer(up, t) == IF up.ok THEN WeatherOk ELSE FallbackWeatherAt(t)

\* transitService.getAll(): the arrivals, or the mock data when the requests fail
TransitOk ==
  [buses |-> [routes |-> [r77 |-> [eastbound |-> <<"5 min">>, westbound |-> <<"8 min">>]]],
   trains |-> [lines |-> [red |-> [north |-> <<"3 min">>, south |-> <<"4 min">>],
                          brown |-> [north |-> <<"6 min">>, south |-> <<"7 min">>]]]]
TransitMock ==
  [buses |-> [routes |-> [r77 |-> [eastbound |-> <<"5 min", "15 min">>,
                                   westbound |-> <<"8 min", "18 min">>]]],
   trains |-> [lines |-> [red |-> [arrivals |-> <<"3 min", "10 min">>],
                          brown |-> [arrivals |-> <<"5 min", "12 min">>]]]]
getAll(up) == IF up.ok THEN TransitOk ELSE TransitMock

\* lifestackClient.getTodayEvents() and getTasks(): response.data, or [] when
\* the request fails
getTodayEvents(up) == IF up.ok THEN up.payload ELSE << >>
getTasks(up) == IF up.ok THEN up.payload ELSE << >>

\* artService.getCurrentArtwork(filters): the three artworks of the slot, or
\* the fallback for each when nothing can be fetched
getCurrentArtwork(up) ==
  IF up.ok
    THEN [artworkCenter |-> Art("artic", "1"), artworkRight |-> Art("met", "1"),
          artworkTV |-> Art("artic", "1")]
    ELSE [artworkCenter |-> FALLBACK_ARTWORK, artworkRight |-> FALLBACK_ARTWORK,
          artworkTV |-> FALLBACK_ARTWORK]

\* the service call behind the fetch of a key
ServiceValue(key, ups) ==
  CASE key = "weather" -> getCurrentWeather(ups.weather)
    [] key = "transit" -> getAll(ups.transit)
    [] key = "calendar" -> getTodayEvents(ups.calendar)
    [] key = "tasks" -> getTasks(ups.tasks)
    [] key = "artwork" -> getCurrentArtwork(ups.artwork)

\* the data a fetch wrapper returns from its catch block
FailureData(key) == IF key \in {"calendar", "tasks"} THEN << >> ELSE NULL

\* fetchWeatherData() ... fetchArtworkData(): the service resolves or rejects
FetchFailedUnflagged(key, message) == Fetched(FailureData(key))
FetchFailedFor(key, message) == FetchFailed(message, FailureData(key))

\* the fetches aggregateDashboard launches for a mode
FetchKeyNames == {"weather", "transit", "calendar", "tasks", "artwork"}

FetchKeysAll(mode) == FetchKeyNames
FetchKeys(mode) ==
  {key \in {"weather", "transit", "calendar", "tasks"} : mode.includes[key]}
    \cup {"artwork"}

\* fetchResults.calendar?.data || []
DataOrEmpty(fetchResults, key) ==
  IF key \in DOMAIN fetchResults THEN fetchResults[key].data ELSE << >>

\* the errors object: one entry per fetch result without success
Errors(fetchResults) ==
  [key \in {k \in DOMAIN fetchResults : ~fetchResults[k].success} |->
     fetchResults[key].error]

\* a field added to the dashboard only under a condition
PutIf(cond, f, k, x) == IF cond THEN Put(f, k, x) ELSE f

\* aggregateDashboard after `await Promise.all(fetchPromises)`: the dashboard
\* built from the fetch results at the instant t
BuildDashboard(modeName, mode, fetchResults, t) ==
  LET d0 == [mode |-> modeName, timestamp |-> t]
      d1 == PutIf(mode.includes.weather, d0, "weather",
                  formatWeatherData(fetchResults.weather))
      d2 == PutIf(mode.includes.transit, d1, "transit",
                  formatTransitData(fetchResults.transit))
      d3 == PutIf(mode.includes.calendar, d2, "events",
                  DataOrEmpty(fetchResults, "calendar"))
      d4 == PutIf(mode.includes.nextEvent, d3, "nextEvent",
                  getNextEvent(DataOrEmpty(fetchResults, "calendar"), t))
      tasks == DataOrEmpty(fetchResults, "tasks")
      d5 == PutIf(mode.includes.tasks, d4, "tasks",
                  IF mode.includes.urgentTasksOnly
                    THEN filterUrgentTasks(tasks, t) ELSE tasks)
      art == fetchResults.artwork
      shown == art.success /\ art.data # NULL
      d6 == Put(d5, "artworkCenter", IF shown THEN art.data.artworkCenter ELSE NULL)
      d7 == Put(d6, "artworkRight", IF shown THEN art.data.artworkRight ELSE NULL)
      d8 == Put(d7, "artworkTV", IF shown THEN art.data.artworkTV ELSE NULL)
      errors == Errors(fetchResults)
  IN PutIf(DOMAIN errors # {}, d8, "errors", errors)

\* an aggregateDashboard call: where it stands, its argument, the upstreams
\* during the call, the fetches launched, the fetches whose service call
\* rejected, the fetch results so far, and the dashboard returned
IdleAgg == [pc |-> "idle", modeName |-> << >>, ups |-> NULL, launched |-> {},
            rejected |-> {}, fetchResults |-> Empty, dashboard |-> NULL]

\* a filterUrgentTasks call: where it stands, its argument, the instant of
\* the call and what it returned
IdleTasks == [pc |-> "idle", tasks |-> << >>, at |-> 0, urgent |-> << >>]

----------------------------------------------------------------------------
(* artService.refreshArtworkPool *)

\* the three cacheManager.set calls after the builds: the pool keys of
\* portrait, landscape and tv
refreshWriteAndFlush(d, filters, pools, t0) == Empty
refreshWritePortraitOnly(d, filters, pools, t0) ==
  set(d, poolKey("portrait", filters), pools[1], Ttl(ARTWORK_CACHE_TTL), t0)
refreshWrite(d, filters, pools, t0) ==
  LET d1 == set(d, poolKey("portrait", filters), pools[1], Ttl(ARTWORK_CACHE_TTL), t0)
      d2 == set(d1, poolKey("landscape", filters), pools[2], Ttl(ARTWORK_CACHE_TTL), t0)
  IN set(d2, poolKey("tv", filters), pools[3], Ttl(ARTWORK_CACHE_TTL), t0)

\* what refreshArtworkPool returns
RefreshOk(pools) ==
  [success |-> TRUE, portraitPoolSize |-> Len(pools[1].items),
   landscapePoolSize |-> Len(pools[2].items), tvPoolSize |-> Len(pools[3].items)]
RefreshFailed == [success |-> FALSE]

\* a refreshArtworkPool call: where it stands, its filters, what it returned
IdleRefresh == [pc |-> "idle", filters |-> NoFilters, result |-> NULL]

----------------------------------------------------------------------------
(* utils/modeManager.js: the ModeManager singleton *)

\* 'personal', the mode of a new ModeManager and of reset()
PersonalName == <<"p", "e", "r", "s", "o", "n", "a", "l">>

\* the change history keeps the last 10 changes
HistoryMax == 10

\* constructor(): `log` is not a field of the class, it records every
\* successful setMode as (from, to) for the properties of the history;
\* `result` is what the last setMode() or reset() returned
NewModeManager ==
  [currentMode |-> PersonalName, lastChanged |-> StartNow, changeHistory |-> << >>,
   log |-> << >>, result |-> NULL]

\* if (this.changeHistory.length > 10) this.changeHistory.shift()
TrimNever(history) == history
Trim(history) == IF Len(history) > HistoryMax THEN Tail(history) ELSE history

\* setMode(mode) at the instant t
setMode(m, mode, t) ==
  IF ~isValidMode(mode)
    THEN [m EXCEPT !.result = [success |-> FALSE, error |-> mode,
                               currentMode |-> m.currentMode]]
    ELSE [currentMode |-> mode,
          lastChanged |-> t,
          changeHistory |->
            Trim(Append(m.changeHistory,
                        [from |-> m.currentMode, to |-> mode, timestamp |-> t])),
          log |-> Append(m.log, [from |-> m.currentMode, to |-> mode]),
          result |-> [success |-> TRUE, mode |-> mode,
                      previousMode |-> m.currentMode, lastChanged |-> t]]

\* reset() at the instant t: back to 'personal', the history is left alone
reset(m, t) ==
  [m EXCEPT !.currentMode = PersonalName,
            !.lastChanged = t,
            !.result = [success |-> TRUE, mode |-> PersonalName,
                        previousMode |-> m.currentMode, lastChanged |-> t]]

\* getProfile()
getProfile(m) ==
  LET config == getMode(m.currentMode)
  IN [mode |-> m.currentMode, name |-> config.name, includes |-> config.includes,
      lastChanged |-> m.lastChanged]

----------------------------------------------------------------------------
(* middleware/validateRequest.js *)

\* a value of a request: a string (its characters), a number, or nothing
StringOf(chars) == [kind |-> "string", chars |-> chars]
NUMBER == [kind |-> "number"]

\* !mode
Falsy(v) == v.kind = "undefined" \/ (v.kind = "string" /\ Len(v.chars) = 0)

\* validateMode(req, res, next): TRUE when next() is called, FALSE when the
\* request is answered with 400
validateMode(mode) ==
  IF Falsy(mode) THEN FALSE
  ELSE IF mode.kind # "string" THEN FALSE
  ELSE isValidMode(mode.chars)

\* validateQueryMode(req, res, next), for a query value that is a string or absent
validateQueryMode(mode) ==
  IF Falsy(mode) THEN TRUE ELSE isValidMode(mode.chars)

\* validateWebSocketCommand(data).valid for a setMode command: a payload.mode
\* that is not a string makes isValidMode throw, which the catch block turns
\* into {valid: false}
validateSetModeCommand(mode) ==
  IF Falsy(mode) THEN FALSE
  ELSE IF mode.kind # "string" THEN FALSE
  ELSE isValidMode(mode.chars)

----------------------------------------------------------------------------
(* routes/dashboard.js, routes/profile.js and middleware/errorHandler.js *)

\* res.json(...) and res.status(code).json(...): the status and the
\* `success` field of the body
Response(status, success, body) ==
  [status |-> status, success |-> success, body |-> body]

\* the request being served: where it stands, its route, the `mode` of its
\* body or query, and its response
IdleHttp == [pc |-> "idle", route |-> "-", request |-> UNDEF, response |-> NULL]

\* const statusCode = err.statusCode || err.status || 500 for an error
\* thrown by a handler
errorHandler(message) == Response(500, FALSE, message)

\* the end of the three dashboard routes: res.json({success: true, data:
\* dashboardData}) when aggregateDashboard returned, next(error) when it threw
dashboardResponseFailsOnErrors(a) ==
  IF a.pc = "done" /\ "errors" \notin DOMAIN a.dashboard
    THEN Response(200, TRUE, a.dashboard)
    ELSE errorHandler("Error")
dashboardResponse(a) ==
  IF a.pc = "done" THEN Response(200, TRUE, a.dashboard) ELSE errorHandler("TypeError")

\* the answer of a validator that does not call next()
ValidationFailed == Response(400, FALSE, "Validation failed")

----------------------------------------------------------------------------
(* websocket/wsHandler.js and scheduler/refreshScheduler.js *)

\* the sockets that may connect
Sockets == {"w1", "w2"}

\* createEvent(event, data), without its timestamp
createEvent(event, d) == [event |-> event, data |-> d]

\* wsHandler's module state: the clients set, the sockets whose readyState
\* is OPEN, whether dashboardUpdateInterval is set and whether its callback
\* is due, the handler awaiting aggregateDashboard.  `out` is what was sent
\* to each socket by the latest stretch of handler code, `updates` counts
\* the periodic dashboard:update events sent to each socket in the current
\* 30-second period, `profile` is the mode of the last profile:changed
\* event sent to each socket that is still open (none: the empty name), and
\* `also` is a setMode command awaiting its own aggregateDashboard call while
\* the aggregation of `job` or of the scheduler is still in flight
NoneSent == [c \in Sockets |-> << >>]
NewWsHandler ==
  [clients |-> {}, open |-> {}, dashboardUpdateInterval |-> FALSE, due |-> FALSE,
   job |-> NULL, out |-> NoneSent, updates |-> [c \in Sockets |-> 0],
   profile |-> [c \in Sockets |-> << >>], also |-> NULL]

\* a stretch of handler code begins: nothing sent by it yet
Fresh(w) == [w EXCEPT !.out = NoneSent]

\* sendToClient(ws, event, data)
sendToClient(w, c, event, d) ==
  IF c \in w.open
    THEN [w EXCEPT !.out[c] = Append(@, createEvent(event, d)),
                   !.profile[c] = IF event = "profile:changed" THEN d.mode ELSE @]
    ELSE w

\* broadcast(event, data)
broadcastNobody(w, event, d) == w
broadcast(w, event, d) ==
  [w EXCEPT !.out = [c \in Sockets |->
                       IF c \in w.clients /\ c \in w.open
                         THEN Append(w.out[c], createEvent(event, d))
                         ELSE w.out[c]],
            !.profile = [c \in Sockets |->
                           IF c \in w.clients /\ c \in w.open /\ event = "profile:changed"
                             THEN d.mode
                             ELSE w.profile[c]]]

\* the sockets a broadcast reaches
Reached(w) == w.clients \cap w.open

\* a periodic broadcast: broadcast('dashboard:update', dashboardData), counted
periodicBroadcast(w, d) ==
  [broadcast(w, "dashboard:update", d) EXCEPT
     !.updates = [c \in Sockets |->
                    IF c \in Reached(w) THEN w.updates[c] + 1 ELSE w.updates[c]]]

\* a handler of wsHandler awaiting aggregateDashboard: the periodic
\* callback, a setMode or refresh command, or the first data of a connection
Job(kind, c) == [kind |-> kind, client |-> c]

\* an instant as new Date().toISOString() records it
TimeAt(t) == [kind |-> "time", at |-> t]

\* refreshScheduler's module state: schedulerTask (set or null), isRunning,
\* lastRefreshTime, refreshCount, errorCount, whether broadcastHandler is
\* set, whether the cron callback is due and where performRefresh stands.
\* `live` counts the cron tasks scheduled and not stopped, `result` is what
\* the last start or stop call returned
NewScheduler ==
  [schedulerTask |-> FALSE, isRunning |-> FALSE, lastRefreshTime |-> NULL,
   refreshCount |-> 0, errorCount |-> 0, broadcastHandler |-> FALSE,
   due |-> FALSE, pc |-> "idle", live |-> 0, result |-> "-"]

\* setBroadcastHandler(handler)
setBroadcastHandler(s) == [s EXCEPT !.broadcastHandler = TRUE]

\* start(wsHandlerBroadcast = null)
startWhileRunning(s, handler) ==
  [s EXCEPT !.broadcastHandler = @ \/ handler, !.schedulerTask = TRUE,
            !.live = @ + 1, !.isRunning = TRUE, !.result = "true"]
start(s, handler) ==
  IF s.isRunning THEN [s EXCEPT !.result = "false"]
  ELSE [s EXCEPT !.broadcastHandler = @ \/ handler, !.schedulerTask = TRUE,
                 !.live = @ + 1, !.isRunning = TRUE, !.result = "true"]

\* stop(): the task is stopped, so a callback that was due no longer runs
stop(s) ==
  IF ~s.isRunning THEN [s EXCEPT !.result = "false"]
  ELSE [s EXCEPT !.live = IF s.schedulerTask THEN @ - 1 ELSE @,
                 !.schedulerTask = FALSE, !.isRunning = FALSE, !.due = FALSE,
                 !.result = "true"]

\* performRefresh after a successful aggregation: the statistics
onRefreshed(s, t) ==
  [s EXCEPT !.lastRefreshTime = TimeAt(t), !.refreshCount = @ + 1, !.pc = "idle"]

\* performRefresh's catch block: errorCount++, nothing thrown
onRefreshErrorStops(s) ==
  [s EXCEPT !.errorCount = @ + 1, !.pc = "idle", !.isRunning = FALSE]
onRefreshError(s) == [s EXCEPT !.errorCount = @ + 1, !.pc = "idle"]

\* a pickWeightedSource call
IdlePick == [pc |-> "idle", sources |-> << >>, roll |-> 0, key |-> "-"]

----------------------------------------------------------------------------
(* State after construction *)

\* a caller's getOrSet call: where it stands, its arguments, the value it
\* got, whether get() hit, how often it invoked fetchFunction, whether it
\* made the latest write of its key, and whether that write replaced an
\* entry that was live
IdleCall == [pc |-> "idle", key |-> "-", ttl |-> NoTtl, value |-> NULL,
             hit |-> FALSE, invoked |-> 0, last |-> FALSE, over |-> FALSE]

\* the callers' `last` flags after a write, a delete or a flush of `key` by
\* `writer` ("direct" for a plain set/del/flush)
Written(g, key, writer) ==
  [c \in DOMAIN g |->
     IF c = writer THEN [g[c] EXCEPT !.last = TRUE]
     ELSE IF g[c].key = key THEN [g[c] EXCEPT !.last = FALSE]
     ELSE g[c]]

Init ==
  /\ now = StartNow
  /\ data = Empty
  /\ lastSet = Empty
  /\ gos = [c \in Callers |-> IdleCall]
  /\ bld = IdleBuild
  /\ rot = [c \in Callers |-> IdleRot]
  /\ rfr = IdleRefresh
  /\ agg = IdleAgg
  /\ tsk = IdleTasks
  /\ mm = NewModeManager
  /\ ws = NewWsHandler
  /\ sch = NewScheduler
  /\ http = IdleHttp
  /\ pick = IdlePick

----------------------------------------------------------------------------
(* The clock and node-cache's sweep timer *)

Tick ==
  /\ now + TickMs <= StartNow + MaxNow
  /\ now' = now + TickMs
  /\ UNCHANGED <<data, lastSet, gos, bld, rot, rfr, agg, tsk, mm, ws, sch, http, pick>>

\* the clock where the sweep keeps up with it: checkperiod (60 s) is shorter
\* than every rotation interval, so the clock of the model does not step
\* again before the entries that have expired are removed
TickSwept ==
  /\ checkData(data, now) = data
  /\ Tick

Sweep ==
  /\ data' = checkData(data, now)
  /\ UNCHANGED <<now, lastSet, gos, bld, rot, rfr, agg, tsk, mm, ws, sch, http, pick>>

----------------------------------------------------------------------------
(* Direct CacheManager calls *)

CallSet(key, value, ttl) ==
  /\ data' = set(data, key, value, ttl, now)
  /\ lastSet' = Put(lastSet, key, [v |-> value, ttl |-> ttl, at |-> now])
  /\ UNCHANGED <<now, gos, bld, rot, rfr, agg, tsk, mm, ws, sch, http, pick>>

CallGet(key) ==
  /\ data' = get(data, key, now).data
  /\ UNCHANGED <<now, lastSet, gos, bld, rot, rfr, agg, tsk, mm, ws, sch, http, pick>>

CallDel(key) ==
  /\ data' = del(data, key)
  /\ lastSet' = del(lastSet, key)
  /\ UNCHANGED <<now, gos, bld, rot, rfr, agg, tsk, mm, ws, sch, http, pick>>

CallFlush ==
  /\ data' = flush(data)
  /\ lastSet' = Empty
  /\ UNCHANGED <<now, gos, bld, rot, rfr, agg, tsk, mm, ws, sch, http, pick>>

NextCache ==
  \/ Tick
  \/ Sweep
  \/ \E key \in CacheKeys, value \in Values, ttl \in TtlArgs : CallSet(key, value, ttl)
  \/ \E key \in CacheKeys : CallGet(key)
  \/ \E key \in CacheKeys : CallDel(key)
  \/ CallFlush

\* the cache under plain get/set/del/flush, the clock and the sweep
SpecCache == Init /\ [][NextCache]_vars

----------------------------------------------------------------------------
(* CacheManager.getOrSet(key, fetchFunction, ttl), one action per stretch *)
(* between awaits                                                          *)

\* let value = this.get(key); a hit returns, a miss calls fetchFunction()
GetOrSetCall(c, key, ttl) ==
  /\ gos[c].pc = "idle"
  /\ LET r == get(data, key, now)
     IN /\ data' = r.data
        /\ gos' = [gos EXCEPT ![c] =
                     IF r.value # NULL
                       THEN [pc |-> "done", key |-> key, ttl |-> ttl,
                             value |-> r.value, hit |-> TRUE, invoked |-> 0,
                             last |-> FALSE, over |-> FALSE]
                       ELSE [pc |-> "fetching", key |-> key, ttl |-> ttl,
                             value |-> NULL, hit |-> FALSE, invoked |-> 1,
                             last |-> FALSE, over |-> FALSE]]
  /\ UNCHANGED <<now, lastSet, bld, rot, rfr, agg, tsk, mm, ws, sch, http, pick>>

\* value = await fetchFunction(): the producer resolves
FetchResolves(c, v) ==
  /\ gos[c].pc = "fetching"
  /\ gos' = [gos EXCEPT ![c].pc = "store", ![c].value = v]
  /\ UNCHANGED <<now, data, lastSet, bld, rot, rfr, agg, tsk, mm, ws, sch, http, pick>>

\* the producer rejects: catch, log, throw err
FetchRejects(c) ==
  /\ gos[c].pc = "fetching"
  /\ gos' = [gos EXCEPT ![c] = OnFetchError(gos[c])]
  /\ UNCHANGED <<now, data, lastSet, bld, rot, rfr, agg, tsk, mm, ws, sch, http, pick>>

\* if (value !== null && value !== undefined) this.set(key, value, ttl); return value
GetOrSetStore(c) ==
  /\ gos[c].pc = "store"
  /\ IF Cacheable(gos[c].value)
       THEN /\ data' = set(data, gos[c].key, gos[c].value, gos[c].ttl, now)
            /\ gos' = [Written(gos, gos[c].key, c) EXCEPT
                         ![c].pc = "done",
                         ![c].over = get(data, gos[c].key, now).value # NULL]
       ELSE /\ data' = data
            /\ gos' = [gos EXCEPT ![c].pc = "done"]
  /\ UNCHANGED <<now, lastSet, bld, rot, rfr, agg, tsk, mm, ws, sch, http, pick>>

\* the caller has its answer (a value or the rethrown error)
GetOrSetReturn(c) ==
  /\ gos[c].pc \in {"done", "threw"}
  /\ gos' = [gos EXCEPT ![c] = IdleCall]
  /\ UNCHANGED <<now, data, lastSet, bld, rot, rfr, agg, tsk, mm, ws, sch, http, pick>>

\* another request sets or deletes a key while getOrSet calls are in flight
OtherSet(key, value, ttl) ==
  /\ data' = set(data, key, value, ttl, now)
  /\ gos' = Written(gos, key, "direct")
  /\ UNCHANGED <<now, lastSet, bld, rot, rfr, agg, tsk, mm, ws, sch, http, pick>>

OtherDel(key) ==
  /\ data' = del(data, key)
  /\ gos' = Written(gos, key, "direct")
  /\ UNCHANGED <<now, lastSet, bld, rot, rfr, agg, tsk, mm, ws, sch, http, pick>>

\* weatherService.getCurrentWeather() up to the await of its producer
WeatherKey == "weather:current"
WeatherCall(c) == GetOrSetCall(c, WeatherKey, Ttl(CACHE_TTL))

\* the producer settles: fetchCurrentWeather() answered or failed
WeatherFetched(c, up) ==
  /\ gos[c].key = WeatherKey
  /\ FetchResolves(c, weatherProducer(up, now))

\* minutes pass
LongTickMs == 300000
MaxLong == 900000
LongTick ==
  /\ now + LongTickMs <= StartNow + MaxLong
  /\ now' = now + LongTickMs
  /\ UNCHANGED <<data, lastSet, gos, bld, rot, rfr, agg, tsk, mm, ws, sch, http, pick>>

NextWeather ==
  \/ LongTick
  \/ Sweep
  \/ \E c \in Callers : WeatherCall(c)
  \/ \E c \in Callers, ok \in BOOLEAN : WeatherFetched(c, Upstream(ok, NULL))
  \/ \E c \in Callers : GetOrSetStore(c)
  \/ \E c \in Callers : GetOrSetReturn(c)

\* getCurrentWeather calls over a quarter of an hour, the upstream
\* answering or failing at each request
SpecWeather == Init /\ [][NextWeather]_vars

\* keys and ttl arguments of the getOrSet calls
GosKeys == {"k1"}
GosTtls == {NoTtl, Ttl(1)}

NextGos ==
  \/ Tick
  \/ \E value \in Values : OtherSet("k2", value, NoTtl)
  \/ OtherDel("k1")
  \/ \E c \in Callers, key \in GosKeys, ttl \in GosTtls : GetOrSetCall(c, key, ttl)
  \/ \E c \in Callers, v \in FetchResults : FetchResolves(c, v)
  \/ \E c \in Callers : FetchRejects(c)
  \/ \E c \in Callers : GetOrSetStore(c)
  \/ \E c \in Callers : GetOrSetReturn(c)

\* concurrent getOrSet calls
SpecGos == Init /\ [][NextGos]_vars

----------------------------------------------------------------------------
(* fetchArtworkPool, one action per stretch between awaits *)

\* fetchArtworkPool(poolSize, ...) up to the loop, with artConfig.sources = srcs
PoolCallWith(srcs, poolSize) ==
  /\ bld.pc = "idle" /\ pick.pc = "idle"
  /\ bld' = IF Len(enabledSources(srcs)) = 0
              THEN [IdleBuild EXCEPT !.pc = "done", !.poolSize = poolSize,
                                     !.sources = srcs, !.out = Throw]
              ELSE [IdleBuild EXCEPT !.pc = "loop", !.poolSize = poolSize,
                                     !.sources = srcs]
  /\ UNCHANGED <<now, data, lastSet, gos, rot, rfr, agg, tsk, mm, ws, sch, http, pick>>

\* the call under the shipped configuration
PoolCall(poolSize) == PoolCallWith(ArtSources, poolSize)

\* one pass: pick a source with the draw, await its fetch, handle the result
PoolAttempt(roll, resp) ==
  /\ bld.pc = "loop"
  /\ Looping(bld.st, bld.poolSize)
  /\ roll \in Rolls(enabledSources(bld.sources))
  /\ LET sourceKey == pickWeightedSource(enabledSources(bld.sources), roll)
         st == AttemptBody(bld.st, bld.poolSize, resp)
     IN /\ resp \in Responses(sourceKey)
        /\ bld' = [bld EXCEPT !.st = st, !.picked = sourceKey,
                              !.pc = IF st.sleep THEN "sleep" ELSE "loop"]
  /\ UNCHANGED <<now, data, lastSet, gos, rot, rfr, agg, tsk, mm, ws, sch, http, pick>>

\* await sleep(RETRY_DELAY) is over
PoolWake ==
  /\ bld.pc = "sleep"
  /\ bld' = [bld EXCEPT !.pc = "loop"]
  /\ UNCHANGED <<now, data, lastSet, gos, rot, rfr, agg, tsk, mm, ws, sch, http, pick>>

\* the loop has ended: throw or return
PoolFinish ==
  /\ bld.pc = "loop"
  /\ ~Looping(bld.st, bld.poolSize)
  /\ bld' = [bld EXCEPT !.pc = "done", !.out = Outcome(bld.st)]
  /\ UNCHANGED <<now, data, lastSet, gos, rot, rfr, agg, tsk, mm, ws, sch, http, pick>>

\* the caller has the pool or the error
PoolReset ==
  /\ bld.pc = "done"
  /\ bld' = IdleBuild
  /\ UNCHANGED <<now, data, lastSet, gos, rot, rfr, agg, tsk, mm, ws, sch, http, pick>>

\* every response some source of the model can give
AllResponses ==
  UNION {Responses(sourceKey) : sourceKey \in {"artic", "met", "cleveland", "giphy"}}

NextPool ==
  \/ \E poolSize \in 1..POOL_SIZE : PoolCall(poolSize)
  \/ \E roll \in Rolls(enabledSources(ArtSources)), resp \in AllResponses :
       PoolAttempt(roll, resp)
  \/ PoolWake
  \/ PoolFinish
  \/ PoolReset

\* the weights a configuration gives a source: none (0) or 2
SourceWeights == {0, 2}

\* artConfig.sources as it may be written: artic, met and giphy in that order,
\* each enabled or not, each with one of the weights
SourceConfigs ==
  { << [key |-> "artic", enabled |-> e1, weight |-> w1],
       [key |-> "met", enabled |-> e2, weight |-> w2],
       [key |-> "giphy", enabled |-> e3, weight |-> w3] >> :
      e1 \in BOOLEAN, e2 \in BOOLEAN, e3 \in BOOLEAN,
      w1 \in SourceWeights, w2 \in SourceWeights, w3 \in SourceWeights }

\* every draw some such configuration allows
AllRolls == UNION {Rolls(enabledSources(srcs)) : srcs \in SourceConfigs}

\* pickWeightedSource(enabledSources()) under the configuration srcs, drawing roll
PickCall(srcs, roll) ==
  /\ pick.pc = "idle" /\ bld.pc = "idle"
  /\ Len(enabledSources(srcs)) > 0
  /\ roll \in Rolls(enabledSources(srcs))
  /\ pick' = [pc |-> "done", sources |-> srcs, roll |-> roll,
              key |-> pickWeightedSource(enabledSources(srcs), roll)]
  /\ UNCHANGED <<now, data, lastSet, gos, bld, rot, rfr, agg, tsk, mm, ws, sch, http>>

\* the caller has the key
PickReturn ==
  /\ pick.pc = "done"
  /\ pick' = IdlePick
  /\ UNCHANGED <<now, data, lastSet, gos, bld, rot, rfr, agg, tsk, mm, ws, sch, http>>

NextSources ==
  \/ \E srcs \in SourceConfigs, roll \in AllRolls : PickCall(srcs, roll)
  \/ PickReturn
  \/ \E srcs \in SourceConfigs : PoolCallWith(srcs, POOL_SIZE)
  \/ \E roll \in AllRolls, resp \in AllResponses : PoolAttempt(roll, resp)
  \/ PoolWake
  \/ PoolFinish
  \/ PoolReset

\* source picks and pool builds under every such configuration
SpecSources == Init /\ [][NextSources]_vars

\* one fetchArtworkPool call after another, against any upstream behaviour
SpecPool == Init /\ [][NextPool]_vars

\* the same calls when every await settles: each adapter request carries a
\* 10 s timeout and sleep() is a timer, so a pending pass is made, a sleeper
\* wakes and an ended loop returns
SpecPoolFair ==
  /\ Init /\ [][NextPool]_vars
  /\ WF_vars(\E roll \in Rolls(enabledSources(ArtSources)), resp \in AllResponses :
               PoolAttempt(roll, resp))
  /\ WF_vars(PoolWake)
  /\ WF_vars(PoolFinish)

----------------------------------------------------------------------------
(* fetchArtworkPool against sources that fail on every odd call *)

\* artConfig.poolSize as shipped
TargetSize == 12

\* fetchFromSource when every source fails on its odd-numbered calls and
\* returns a work not seen before on its even-numbered calls: the n-th call
StubResponse(sourceKey, n) ==
  IF n % 2 = 1 THEN Throw ELSE Art(sourceKey, ToString(n))

\* the draws tried: the lowest and the highest roll
DrawSamples(entries) == {0, totalWeight(entries) - 1}

\* one pass of the loop against the stub
StubAttempt(roll) ==
  /\ bld.pc = "loop"
  /\ Looping(bld.st, bld.poolSize)
  /\ LET sourceKey == pickWeightedSource(enabledSources(bld.sources), roll)
         st == AttemptBody(bld.st, bld.poolSize, StubResponse(sourceKey, bld.st.attempt + 1))
     IN bld' = [bld EXCEPT !.st = st, !.picked = sourceKey,
                           !.pc = IF st.sleep THEN "sleep" ELSE "loop"]
  /\ UNCHANGED <<now, data, lastSet, gos, rot, rfr, agg, tsk, mm, ws, sch, http, pick>>

NextStub ==
  \/ PoolCall(TargetSize)
  \/ \E roll \in DrawSamples(enabledSources(ArtSources)) : StubAttempt(roll)
  \/ PoolWake
  \/ PoolFinish
  \/ PoolReset

\* fetchArtworkPool(12) against the stub
SpecStub == Init /\ [][NextStub]_vars

----------------------------------------------------------------------------
(* getArtworkByOrientation, one action per stretch between awaits *)

\* some other caller holds the returned result of a call of the same
\* orientation, filters and slot
Earlier(c, orientation, filters, slot) ==
  \E d \in Callers \ {c} :
     /\ rot[d].pc = "done"
     /\ rot[d].orientation = orientation
     /\ filterKey(rot[d].filters) = filterKey(filters)
     /\ rot[d].slot = slot

\* the call up to its first await: the slot, getOrSet's get of the slot key
\* and, on a miss, the producer's get of the pool key, its pick from a
\* cached pool or the start of fetchArtworkPool
RotCall(c, orientation, filters) ==
  /\ rot[c].pc = "idle"
  /\ LET slot == rotationSlot(orientation, now)
         key == cacheKey(orientation, filters, slot)
         ttl == Ttl(ROTATION_INTERVALS(orientation))
         r1 == get(data, key, now)
         r2 == get(r1.data, poolKey(orientation, filters), now)
         call == [pc |-> "fetching", key |-> key, ttl |-> ttl, value |-> NULL,
                  hit |-> FALSE, invoked |-> 1, last |-> FALSE, over |-> FALSE]
         me == [pc |-> "awaiting", orientation |-> orientation, filters |-> filters,
                slot |-> slot, result |-> NULL, fb |-> FALSE,
                after |-> Earlier(c, orientation, filters, slot)]
     IN IF r1.value # NULL
          THEN /\ data' = r1.data
               /\ gos' = [gos EXCEPT ![c] =
                            [call EXCEPT !.pc = "done", !.value = r1.value,
                                         !.hit = TRUE, !.invoked = 0]]
               /\ rot' = [rot EXCEPT ![c] = me]
          ELSE /\ data' = r2.data
               /\ IF HasPool(r2.value)
                    THEN /\ gos' = [gos EXCEPT ![c] =
                                      [call EXCEPT !.pc = "store",
                                                   !.value = PickFromPool(r2.value, slot)]]
                         /\ rot' = [rot EXCEPT ![c] = me]
                    ELSE /\ gos' = [gos EXCEPT ![c] = call]
                         /\ rot' = [rot EXCEPT ![c] = [me EXCEPT !.pc = "building"]]
  /\ UNCHANGED <<now, lastSet, bld, rfr, agg, tsk, mm, ws, sch, http, pick>>

\* await fetchArtworkPool(...) resolves: cache the pool, pick the slot's artwork
BuildResolves(c, pool) ==
  /\ rot[c].pc = "building"
  /\ pool \in BuildOutcomes /\ pool.kind = "pool"
  /\ data' = set(data, poolKey(rot[c].orientation, rot[c].filters), pool,
                 Ttl(ARTWORK_CACHE_TTL), now)
  /\ gos' = [gos EXCEPT ![c].pc = "store",
                        ![c].value = PickFromPool(pool, rot[c].slot)]
  /\ rot' = [rot EXCEPT ![c].pc = "awaiting"]
  /\ UNCHANGED <<now, lastSet, bld, rfr, agg, tsk, mm, ws, sch, http, pick>>

\* await fetchArtworkPool(...) rejects: the producer fails, getOrSet rethrows
BuildRejects(c) ==
  /\ rot[c].pc = "building"
  /\ Throw \in BuildOutcomes
  /\ gos' = [gos EXCEPT ![c] = OnFetchError(gos[c])]
  /\ rot' = [rot EXCEPT ![c].pc = "awaiting"]
  /\ UNCHANGED <<now, data, lastSet, bld, rfr, agg, tsk, mm, ws, sch, http, pick>>

\* getOrSet after `await fetchFunction()`: store the pick under the slot key
\* (GetOrSetStore without the bookkeeping of writers)
RotStore(c) ==
  /\ rot[c].pc = "awaiting"
  /\ gos[c].pc = "store"
  /\ data' = IF Cacheable(gos[c].value)
               THEN set(data, gos[c].key, gos[c].value, gos[c].ttl, now)
               ELSE data
  /\ gos' = [gos EXCEPT ![c].pc = "done"]
  /\ UNCHANGED <<now, lastSet, bld, rot, rfr, agg, tsk, mm, ws, sch, http, pick>>

\* return await cacheManager.getOrSet(...): the value comes back
RotReturn(c) ==
  /\ rot[c].pc = "awaiting"
  /\ gos[c].pc = "done"
  /\ rot' = [rot EXCEPT ![c].pc = "done", ![c].result = gos[c].value]
  /\ gos' = [gos EXCEPT ![c] = IdleCall]
  /\ UNCHANGED <<now, data, lastSet, bld, rfr, agg, tsk, mm, ws, sch, http, pick>>

\* the catch block: get the pool key again, return its first artwork or the fallback
RotCatch(c) ==
  /\ rot[c].pc = "awaiting"
  /\ gos[c].pc = "threw"
  /\ LET r == get(data, poolKey(rot[c].orientation, rot[c].filters), now)
     IN /\ data' = r.data
        /\ rot' = [rot EXCEPT ![c].pc = "done", ![c].fb = TRUE,
                              ![c].result = CatchResult(r.value)]
  /\ gos' = [gos EXCEPT ![c] = IdleCall]
  /\ UNCHANGED <<now, lastSet, bld, rfr, agg, tsk, mm, ws, sch, http, pick>>

\* the caller has its artwork
RotDone(c) ==
  /\ rot[c].pc = "done"
  /\ rot' = [d \in Callers |-> IF d = c THEN IdleRot ELSE [rot[d] EXCEPT !.after = FALSE]]
  /\ UNCHANGED <<now, data, lastSet, gos, bld, rfr, agg, tsk, mm, ws, sch, http, pick>>

Orientations == {"portrait"}
FilterSets == {NoFilters}

NextRot ==
  \/ TickSwept
  \/ Sweep
  \/ \E c \in Callers, o \in Orientations, f \in FilterSets : RotCall(c, o, f)
  \/ \E c \in Callers, pool \in BuildOutcomes : BuildResolves(c, pool)
  \/ \E c \in Callers : BuildRejects(c)
  \/ \E c \in Callers : RotStore(c)
  \/ \E c \in Callers : RotReturn(c)
  \/ \E c \in Callers : RotCatch(c)
  \/ \E c \in Callers : RotDone(c)

\* concurrent getArtworkByOrientation calls
SpecRot == Init /\ [][NextRot]_vars

----------------------------------------------------------------------------
(* refreshArtworkPool, one action per stretch between awaits *)

\* the call up to `await Promise.all([...])`: three pool builds start
RefreshCall(filters) ==
  /\ rfr.pc = "idle"
  /\ rfr' = [pc |-> "building", filters |-> filters, result |-> NULL]
  /\ UNCHANGED <<now, data, lastSet, gos, bld, rot, agg, tsk, mm, ws, sch, http, pick>>

\* all three builds have resolved: the three pools are cached
RefreshResolves(pools) ==
  /\ rfr.pc = "building"
  /\ \A i \in 1..3 : pools[i] \in BuildOutcomes /\ pools[i].kind = "pool"
  /\ data' = refreshWrite(data, rfr.filters, pools, now)
  /\ rfr' = [rfr EXCEPT !.pc = "done", !.result = RefreshOk(pools)]
  /\ UNCHANGED <<now, lastSet, gos, bld, rot, agg, tsk, mm, ws, sch, http, pick>>

\* one of the builds has rejected: the catch block, nothing is cached
RefreshRejects ==
  /\ rfr.pc = "building"
  /\ Throw \in BuildOutcomes
  /\ rfr' = [rfr EXCEPT !.pc = "done", !.result = RefreshFailed]
  /\ UNCHANGED <<now, data, lastSet, gos, bld, rot, agg, tsk, mm, ws, sch, http, pick>>

\* the caller has the result
RefreshDone ==
  /\ rfr.pc = "done"
  /\ rfr' = IdleRefresh
  /\ UNCHANGED <<now, data, lastSet, gos, bld, rot, agg, tsk, mm, ws, sch, http, pick>>

\* the pools a refresh may end with: any pool for portrait, the orientation
\* the viewer asks for, and one sample pool for landscape and tv
PoolsBuilt == {o \in BuildOutcomes : o.kind = "pool"}
SamplePool == CHOOSE o \in PoolsBuilt : Len(o.items) = POOL_SIZE

\* the caller whose rotation calls run beside the refresh
Viewers == {"c1"}

NextRefresh ==
  \/ TickSwept
  \/ Sweep
  \/ \E c \in Viewers, o \in Orientations, f \in FilterSets : RotCall(c, o, f)
  \/ \E c \in Viewers, pool \in BuildOutcomes : BuildResolves(c, pool)
  \/ \E c \in Viewers : BuildRejects(c)
  \/ \E c \in Viewers : RotStore(c)
  \/ \E c \in Viewers : RotReturn(c)
  \/ \E c \in Viewers : RotCatch(c)
  \/ \E c \in Viewers : RotDone(c)
  \/ \E f \in FilterSets : RefreshCall(f)
  \/ \E p \in PoolsBuilt : RefreshResolves(<<p, SamplePool, SamplePool>>)
  \/ RefreshRejects
  \/ RefreshDone

\* getArtworkByOrientation calls beside refreshArtworkPool calls
SpecRefresh == Init /\ [][NextRefresh]_vars

----------------------------------------------------------------------------
(* filterUrgentTasks applied to task lists *)

\* tasks of the lists tried: overdue by an hour, due in 23 hours, due in 48
\* hours, completed and due in an hour, without a due instant, due 24 hours
\* after the start of the clock, and with status 'completed' due in two hours
TaskUniverse ==
  {Task("overdue", FALSE, "pending", TRUE, StartNow - HourMs),
   Task("soon", FALSE, "pending", TRUE, StartNow + 23 * HourMs),
   Task("later", FALSE, "pending", TRUE, StartNow + 48 * HourMs),
   Task("done", TRUE, "pending", TRUE, StartNow + HourMs),
   Task("undated", FALSE, "pending", FALSE, 0),
   Task("edge", FALSE, "pending", TRUE, StartNow + UrgentHours * HourMs),
   Task("closed", FALSE, "completed", TRUE, StartNow + 2 * HourMs)}

\* longest task list tried
MaxTasks == 4

\* the lists of at most MaxTasks different tasks
TaskLists ==
  {ts \in UNION {[1..n -> TaskUniverse] : n \in 0..MaxTasks} :
     \A i, j \in 1..Len(ts) : ts[i] = ts[j] => i = j}

TasksCall(tasks) ==
  /\ tsk.pc = "idle"
  /\ tsk' = [pc |-> "done", tasks |-> tasks, at |-> now,
             urgent |-> filterUrgentTasks(tasks, now)]
  /\ UNCHANGED <<now, data, lastSet, gos, bld, rot, rfr, agg, mm, ws, sch, http, pick>>

TasksReturn ==
  /\ tsk.pc = "done"
  /\ tsk' = IdleTasks
  /\ UNCHANGED <<now, data, lastSet, gos, bld, rot, rfr, agg, mm, ws, sch, http, pick>>

NextTasks ==
  \/ Tick
  \/ \E tasks \in TaskLists : TasksCall(tasks)
  \/ TasksReturn

\* filterUrgentTasks over the task lists, at every instant of the clock
SpecTasks == Init /\ [][NextTasks]_vars

----------------------------------------------------------------------------
(* aggregateDashboard, one action per stretch between awaits *)

\* mode names of the calls: the configured names, one of them in another
\* letter case, a name that is not configured, and a name every object inherits
ModeNames ==
  {<<"p", "e", "r", "s", "o", "n", "a", "l">>,
   <<"g", "u", "e", "s", "t">>,
   <<"t", "r", "a", "n", "s", "i", "t">>,
   <<"m", "o", "r", "n", "i", "n", "g">>,
   <<"w", "o", "r", "k">>,
   <<"g", "a", "l", "l", "e", "r", "y">>,
   <<"W", "o", "r", "k">>,
   <<"k", "i", "o", "s", "k">>,
   <<"c", "o", "n", "s", "t", "r", "u", "c", "t", "o", "r">>}

\* today's events the calendar may hold: one over, one running, one to come,
\* one without an end that has begun
EventOver == Event("over", StartNow - 8 * MsPerSec, TRUE, StartNow - 5 * MsPerSec)
EventRunning == Event("running", StartNow - 2 * MsPerSec, TRUE, StartNow + 10 * MsPerSec)
EventAhead == Event("ahead", StartNow + 5 * MsPerSec, TRUE, StartNow + 8 * MsPerSec)
EventOpen == Event("open", StartNow - MsPerSec, FALSE, 0)

EventLists ==
  {<< >>, <<EventOver>>, <<EventAhead, EventRunning>>, <<EventOpen, EventAhead, EventOver>>}

\* the task list Lifestack holds
AggTaskLists ==
  {<<Task("later", FALSE, "pending", TRUE, StartNow + 48 * HourMs),
     Task("soon", FALSE, "pending", TRUE, StartNow + 23 * HourMs),
     Task("overdue", FALSE, "pending", TRUE, StartNow - HourMs)>>}

\* the upstreams during a call
Upstreams ==
  [weather : {Upstream(ok, NULL) : ok \in BOOLEAN},
   transit : {Upstream(ok, NULL) : ok \in BOOLEAN},
   calendar : {Upstream(ok, events) : ok \in BOOLEAN, events \in EventLists},
   tasks : {Upstream(ok, tasks) : ok \in BOOLEAN, tasks \in AggTaskLists},
   artwork : {Upstream(ok, NULL) : ok \in BOOLEAN}]

\* the call up to `await Promise.all(fetchPromises)`: getMode, then the
\* fetches of the mode are launched; reading `includes` of a value that is
\* not a mode throws a TypeError
AggStart(modeName, ups) ==
  /\ agg.pc = "idle"
  /\ LET mode == getMode(modeName)
     IN agg' = IF mode.kind = "mode"
                 THEN [IdleAgg EXCEPT !.pc = "fetching", !.modeName = modeName,
                                      !.ups = ups, !.launched = FetchKeys(mode)]
                 ELSE [IdleAgg EXCEPT !.pc = "threw", !.modeName = modeName,
                                      !.ups = ups]

\* aggregateDashboard(modeName) called on its own
AggCall(modeName, ups) ==
  /\ AggStart(modeName, ups)
  /\ UNCHANGED <<now, data, lastSet, gos, bld, rot, rfr, tsk, mm, ws, sch, http, pick>>

\* the service call of one fetch resolves: {success: true, data}
FetchSettles(key) ==
  /\ agg.pc = "fetching"
  /\ key \in agg.launched \ DOMAIN agg.fetchResults
  /\ agg' = [agg EXCEPT !.fetchResults =
               Put(@, key, Fetched(ServiceValue(key, agg.ups)))]
  /\ UNCHANGED <<now, data, lastSet, gos, bld, rot, rfr, tsk, mm, ws, sch, http, pick>>

\* the service call of one fetch rejects: the catch block of the wrapper
FetchThrows(key) ==
  /\ agg.pc = "fetching"
  /\ key \in agg.launched \ DOMAIN agg.fetchResults
  /\ agg' = [agg EXCEPT !.fetchResults = Put(@, key, FetchFailedFor(key, "failed")),
                        !.rejected = @ \cup {key}]
  /\ UNCHANGED <<now, data, lastSet, gos, bld, rot, rfr, tsk, mm, ws, sch, http, pick>>

\* all fetches have settled: the dashboard is built and returned
AggAssemble ==
  /\ agg.pc = "fetching"
  /\ DOMAIN agg.fetchResults = agg.launched
  /\ agg' = [agg EXCEPT !.pc = "done",
                        !.dashboard = BuildDashboard(agg.modeName, getMode(agg.modeName),
                                                     agg.fetchResults, now)]
  /\ UNCHANGED <<now, data, lastSet, gos, bld, rot, rfr, tsk, mm, ws, sch, http, pick>>

\* the caller has the dashboard or the error
AggReturn ==
  /\ agg.pc \in {"done", "threw"}
  /\ agg' = IdleAgg
  /\ UNCHANGED <<now, data, lastSet, gos, bld, rot, rfr, tsk, mm, ws, sch, http, pick>>

NextAgg ==
  \/ \E modeName \in ModeNames, ups \in Upstreams : AggCall(modeName, ups)
  \/ \E key \in FetchKeyNames : FetchSettles(key)
  \/ \E key \in FetchKeyNames : FetchThrows(key)
  \/ AggAssemble
  \/ AggReturn

\* aggregateDashboard calls, one after another
SpecAgg == Init /\ [][NextAgg]_vars

----------------------------------------------------------------------------
(* The server: mode changes, dashboard requests, WebSocket clients, timers *)

\* the cache, the art service and the task filter, which the handlers below
\* leave alone
storeVars == <<data, lastSet, gos, bld, rot, rfr, tsk, pick>>

\* the successful setMode calls of a run are capped
MaxChanges == 12

\* modeManager.setMode(mode), called on its own
SetModeCall(mode) ==
  /\ Len(mm.log) < MaxChanges
  /\ mm' = setMode(mm, mode, now)
  /\ UNCHANGED <<now, agg, ws, sch, http>>
  /\ UNCHANGED storeVars

\* POST /api/dashboard/mode: validateMode, then setMode
PostMode(mode) ==
  /\ http.pc = "idle"
  /\ Len(mm.log) < MaxChanges
  /\ IF ~validateMode(mode)
       THEN /\ mm' = mm
            /\ http' = [IdleHttp EXCEPT !.route = "POST /api/dashboard/mode",
                                        !.request = mode,
                                        !.response = ValidationFailed]
       ELSE LET m == setMode(mm, mode.chars, now)
            IN /\ mm' = m
               /\ http' = [IdleHttp EXCEPT
                             !.route = "POST /api/dashboard/mode",
                             !.request = mode,
                             !.response =
                               IF ~m.result.success
                                 THEN Response(400, FALSE, "Invalid mode")
                                 ELSE Response(200, TRUE,
                                               [mode |-> m.result.mode,
                                                previousMode |-> m.result.previousMode,
                                                lastChanged |-> m.result.lastChanged])]
  /\ ws' = Fresh(ws)
  /\ UNCHANGED <<now, agg, sch>>
  /\ UNCHANGED storeVars

\* POST /api/profile: validateMode, then setMode and getProfile
PostProfile(mode) ==
  /\ http.pc = "idle"
  /\ Len(mm.log) < MaxChanges
  /\ IF ~validateMode(mode)
       THEN /\ mm' = mm
            /\ http' = [IdleHttp EXCEPT !.route = "POST /api/profile",
                                        !.request = mode,
                                        !.response = ValidationFailed]
       ELSE LET m == setMode(mm, mode.chars, now)
            IN /\ mm' = m
               /\ http' = [IdleHttp EXCEPT
                             !.route = "POST /api/profile",
                             !.request = mode,
                             !.response =
                               IF ~m.result.success
                                 THEN Response(400, FALSE, "Invalid mode")
                                 ELSE Response(200, TRUE, getProfile(m))]
  /\ ws' = Fresh(ws)
  /\ UNCHANGED <<now, agg, sch>>
  /\ UNCHANGED storeVars

\* POST /api/profile/reset: reset and getProfile
PostReset ==
  /\ http.pc = "idle"
  /\ LET m == reset(mm, now)
     IN /\ mm' = m
        /\ http' = [IdleHttp EXCEPT !.route = "POST /api/profile/reset",
                                    !.response = Response(200, TRUE, getProfile(m))]
  /\ ws' = Fresh(ws)
  /\ UNCHANGED <<now, agg, sch>>
  /\ UNCHANGED storeVars

\* GET /api/dashboard, GET /api/dashboard/data and GET /api/dashboard/refresh
\* up to `await dashboardAggregator.aggregateDashboard(mode)`; only /data has
\* a validator and reads the query
GetDashboard(route, query, ups) ==
  /\ http.pc = "idle"
  /\ IF route = "GET /api/dashboard/data" /\ ~validateQueryMode(query)
       THEN /\ http' = [IdleHttp EXCEPT !.route = route, !.request = query,
                                        !.response = ValidationFailed]
            /\ agg' = agg
       ELSE /\ AggStart(IF route = "GET /api/dashboard/data" /\ ~Falsy(query)
                          THEN query.chars ELSE mm.currentMode,
                        ups)
            /\ http' = [pc |-> "awaiting", route |-> route, request |-> query,
                        response |-> NULL]
  /\ ws' = Fresh(ws)
  /\ UNCHANGED <<now, mm, sch>>
  /\ UNCHANGED storeVars

\* the aggregation of the request is over: res.json({success: true, data}),
\* or next(error) and the error handler
GetDashboardResponds ==
  /\ http.pc = "awaiting"
  /\ agg.pc \in {"done", "threw"}
  /\ http' = [http EXCEPT !.pc = "idle", !.response = dashboardResponse(agg)]
  /\ agg' = IdleAgg
  /\ ws' = Fresh(ws)
  /\ UNCHANGED <<now, mm, sch>>
  /\ UNCHANGED storeVars

\* server startup: wsHandler.initialize(wss) sets the update interval (the
\* keepalive pings are left out), then refreshScheduler.setBroadcastHandler
\* (wsHandler.broadcast) and refreshScheduler.start()
ServerStart ==
  /\ ~ws.dashboardUpdateInterval
  /\ ~sch.isRunning
  /\ ws' = [Fresh(ws) EXCEPT !.dashboardUpdateInterval = TRUE]
  /\ sch' = start(setBroadcastHandler(sch), FALSE)
  /\ UNCHANGED <<now, agg, mm, http>>
  /\ UNCHANGED storeVars

\* handleConnection(ws, req) up to the await of the first dashboard data
Connect(c, ups) ==
  /\ ws.dashboardUpdateInterval
  /\ c \notin ws.clients
  /\ ws.job = NULL
  /\ LET w0 == [Fresh(ws) EXCEPT !.clients = @ \cup {c}, !.open = @ \cup {c},
                                 !.updates[c] = 0]
         w1 == sendToClient(w0, c, "connection", Cardinality(w0.clients))
         w2 == sendToClient(w1, c, "profile:changed", getProfile(mm))
     IN ws' = [w2 EXCEPT !.job = Job("connect", c)]
  /\ AggStart(mm.currentMode, ups)
  /\ UNCHANGED <<now, mm, sch, http>>
  /\ UNCHANGED storeVars

\* the socket leaves the OPEN state (the peer goes away)
SocketCloses(c) ==
  /\ c \in ws.open
  /\ ws' = [Fresh(ws) EXCEPT !.open = @ \ {c}, !.profile[c] = << >>]
  /\ UNCHANGED <<now, agg, mm, sch, http>>
  /\ UNCHANGED storeVars

\* ws.on('close'): clients.delete(ws)
CloseEvent(c) ==
  /\ c \in ws.clients \ ws.open
  /\ ws' = [Fresh(ws) EXCEPT !.clients = @ \ {c}]
  /\ UNCHANGED <<now, agg, mm, sch, http>>
  /\ UNCHANGED storeVars

\* handleClientMessage(ws, message) for {command: 'setMode', payload: {mode}}
\* up to `await broadcastDashboardUpdate()`
WsSetMode(c, mode, ups) ==
  /\ c \in ws.clients
  /\ ws.job = NULL
  /\ Len(mm.log) < MaxChanges
  /\ IF ~validateSetModeCommand(mode)
       THEN /\ ws' = sendToClient(Fresh(ws), c, "error", "invalid command")
            /\ mm' = mm
            /\ agg' = agg
       ELSE LET m == setMode(mm, mode.chars, now)
            IN /\ mm' = m
               /\ IF m.result.success
                    THEN LET profile == getProfile(m)
                             w1 == sendToClient(Fresh(ws), c, "profile:changed", profile)
                             w2 == broadcast(w1, "profile:changed", profile)
                         IN /\ ws' = [w2 EXCEPT !.job = Job("setMode", c)]
                            /\ AggStart(m.currentMode, ups)
                    ELSE /\ ws' = sendToClient(Fresh(ws), c, "error", "invalid mode")
                         /\ agg' = agg
  /\ UNCHANGED <<now, sch, http>>
  /\ UNCHANGED storeVars

\* handleClientMessage(ws, message) for {command: 'refresh'} up to the await
WsRefresh(c, ups) ==
  /\ c \in ws.clients
  /\ ws.job = NULL
  /\ ws' = [Fresh(ws) EXCEPT !.job = Job("refresh", c)]
  /\ AggStart(mm.currentMode, ups)
  /\ UNCHANGED <<now, mm, sch, http>>
  /\ UNCHANGED storeVars

\* the refreshes performed in a run, and the cron tasks the model lets exist
MaxRefreshes == 2
MaxTasksLive == 3

\* a 30-second boundary passes: the setInterval callback of wsHandler and
\* the cron callback of refreshScheduler ('*/30 * * * * *') both become due
PeriodElapses ==
  /\ ws.dashboardUpdateInterval \/ sch.isRunning
  /\ ~ws.due /\ ~sch.due
  /\ sch.pc = "idle"
  /\ ws.job = NULL \/ ws.job.kind # "interval"
  /\ ws' = [Fresh(ws) EXCEPT !.due = ws.dashboardUpdateInterval,
                             !.updates = [c \in Sockets |-> 0]]
  /\ sch' = [sch EXCEPT !.due = sch.isRunning]
  /\ UNCHANGED <<now, agg, mm, http>>
  /\ UNCHANGED storeVars

\* the setInterval callback: broadcastDashboardUpdate() up to its await
IntervalFires(ups) ==
  /\ ws.due
  /\ ws.job = NULL
  /\ ws' = [Fresh(ws) EXCEPT !.due = FALSE, !.job = Job("interval", "-")]
  /\ AggStart(mm.currentMode, ups)
  /\ UNCHANGED <<now, mm, sch, http>>
  /\ UNCHANGED storeVars

\* the aggregation a handler of wsHandler awaits is over: the dashboard goes
\* to all clients (periodic callback, setMode) or to the requesting client
\* (refresh, connection); an error is logged, or reported to the client that
\* asked for a refresh
WsJobCompletes ==
  /\ ws.job # NULL
  /\ agg.pc \in {"done", "threw"}
  /\ LET w0 == [Fresh(ws) EXCEPT !.job = NULL]
         kind == ws.job.kind
         c == ws.job.client
     IN ws' = IF agg.pc = "done"
                THEN CASE kind = "interval" -> periodicBroadcast(w0, agg.dashboard)
                       [] kind = "setMode" -> broadcast(w0, "dashboard:update", agg.dashboard)
                       [] OTHER -> sendToClient(w0, c, "dashboard:update", agg.dashboard)
                ELSE IF kind = "refresh"
                       THEN sendToClient(w0, c, "error", "Failed to refresh dashboard")
                       ELSE w0
  /\ agg' = IdleAgg
  /\ UNCHANGED <<now, mm, sch, http>>
  /\ UNCHANGED storeVars

\* the cron callback: performRefresh() up to its await
CronFires(ups) ==
  /\ sch.due
  /\ sch.pc = "idle"
  /\ sch.refreshCount + sch.errorCount < MaxRefreshes
  /\ sch' = [sch EXCEPT !.due = FALSE, !.pc = "refreshing"]
  /\ AggStart(mm.currentMode, ups)
  /\ ws' = Fresh(ws)
  /\ UNCHANGED <<now, mm, http>>
  /\ UNCHANGED storeVars

\* performRefresh() after its await: broadcastHandler('dashboard:update',
\* dashboardData), or the error is counted
CronCompletes ==
  /\ sch.pc = "refreshing"
  /\ agg.pc \in {"done", "threw"}
  /\ ws' = IF agg.pc = "done" /\ sch.broadcastHandler
             THEN periodicBroadcast(Fresh(ws), agg.dashboard)
             ELSE Fresh(ws)
  /\ sch' = IF agg.pc = "done" THEN onRefreshed(sch, now) ELSE onRefreshError(sch)
  /\ agg' = IdleAgg
  /\ UNCHANGED <<now, mm, http>>
  /\ UNCHANGED storeVars

\* what aggregateDashboard(modeName) returns at instant t when none of its
\* fetches rejects: the composite of the results of the fetches it launches
aggregateDashboard(modeName, ups, t) ==
  LET mode == getMode(modeName)
  IN BuildDashboard(modeName, mode,
                    [key \in FetchKeys(mode) |-> Fetched(ServiceValue(key, ups))], t)

\* handleClientMessage for a setMode command that arrives while another
\* handler's aggregateDashboard call is in flight: the same code as
\* WsSetMode, its own aggregation running beside the one in flight
WsSetModeMeanwhile(c, mode, ups) ==
  /\ c \in ws.clients
  /\ ws.job # NULL \/ sch.pc = "refreshing"
  /\ ws.also = NULL
  /\ Len(mm.log) < MaxChanges
  /\ IF ~validateSetModeCommand(mode)
       THEN /\ ws' = sendToClient(Fresh(ws), c, "error", "invalid command")
            /\ mm' = mm
       ELSE LET m == setMode(mm, mode.chars, now)
            IN /\ mm' = m
               /\ IF m.result.success
                    THEN LET profile == getProfile(m)
                             w1 == sendToClient(Fresh(ws), c, "profile:changed", profile)
                             w2 == broadcast(w1, "profile:changed", profile)
                         IN ws' = [w2 EXCEPT !.also =
                                     [kind |-> "setMode", client |-> c,
                                      modeName |-> m.currentMode, ups |-> ups]]
                    ELSE ws' = sendToClient(Fresh(ws), c, "error", "invalid mode")
  /\ UNCHANGED <<now, agg, sch, http>>
  /\ UNCHANGED storeVars

\* that command's `await broadcastDashboardUpdate()` is over
AlsoCompletes ==
  /\ ws.also # NULL
  /\ ws' = broadcast([Fresh(ws) EXCEPT !.also = NULL], "dashboard:update",
                     aggregateDashboard(ws.also.modeName, ws.also.ups, now))
  /\ UNCHANGED <<now, agg, mm, sch, http>>
  /\ UNCHANGED storeVars

\* refreshScheduler.start(handler)
SchedStart(handler) ==
  /\ sch.live < MaxTasksLive
  /\ sch' = start(sch, handler)
  /\ UNCHANGED <<now, agg, mm, ws, http>>
  /\ UNCHANGED storeVars

\* refreshScheduler.stop()
SchedStop ==
  /\ sch' = stop(sch)
  /\ UNCHANGED <<now, agg, mm, ws, http>>
  /\ UNCHANGED storeVars

\* the aggregateDashboard call in flight rejects: an exception inside its
\* try block, logged and rethrown by its catch
AggRejects ==
  /\ agg.pc = "fetching"
  /\ agg' = [agg EXCEPT !.pc = "threw"]
  /\ UNCHANGED <<now, data, lastSet, gos, bld, rot, rfr, tsk, mm, ws, sch, http, pick>>

\* mode names of the requests: two configured names, one of them also in
\* another letter case, a name that is not configured, a name every object
\* inherits
WorkName == <<"w", "o", "r", "k">>
WorkMixedName == <<"W", "o", "r", "k">>
TransitName == <<"t", "r", "a", "n", "s", "i", "t">>
KioskName == <<"k", "i", "o", "s", "k">>
ConstructorName == <<"c", "o", "n", "s", "t", "r", "u", "c", "t", "o", "r">>

\* the `mode` of a request body or of a setMode payload: configured names,
\* names that are not configured, the empty string, a number, nothing
ModeValues ==
  {StringOf(PersonalName), StringOf(WorkName), StringOf(KioskName), UNDEF}
ModeValuesMore ==
  ModeValues \cup {StringOf(WorkMixedName), StringOf(ConstructorName), StringOf(<< >>), NUMBER}

\* the upstreams during the aggregations of the server: all answering, or
\* all failing
AllUp ==
  [weather |-> Upstream(TRUE, NULL), transit |-> Upstream(TRUE, NULL),
   calendar |-> Upstream(TRUE, <<EventAhead, EventRunning>>),
   tasks |-> Upstream(TRUE, << >>), artwork |-> Upstream(TRUE, NULL)]
AllDown ==
  [weather |-> Upstream(FALSE, NULL), transit |-> Upstream(FALSE, NULL),
   calendar |-> Upstream(FALSE, << >>),
   tasks |-> Upstream(FALSE, << >>), artwork |-> Upstream(FALSE, NULL)]

\* the mode changes tried where the clock or the clients vary as well
FewChanges == 2

NextHistory ==
  \/ \E mode \in ModeValues : PostMode(mode)
  \/ \E mode \in ModeValues : PostProfile(mode)

\* one mode change after another through the two POST routes
SpecHistory == Init /\ [][NextHistory]_vars

NextMode ==
  \/ Tick
  \/ Len(mm.log) < FewChanges /\ \E mode \in ModeValuesMore : mode.kind = "string" /\ SetModeCall(mode.chars)
  \/ Len(mm.log) < FewChanges /\ \E mode \in ModeValuesMore : PostMode(mode)
  \/ Len(mm.log) < FewChanges /\ \E mode \in ModeValuesMore : PostProfile(mode)
  \/ PostReset

\* setMode calls and mode requests, valid and invalid, as time passes
SpecMode == Init /\ [][NextMode]_vars

NextProfile ==
  \/ ServerStart
  \/ \E c \in Sockets : Connect(c, AllUp)
  \/ \E c \in Sockets : SocketCloses(c)
  \/ \E c \in Sockets : CloseEvent(c)
  \/ Len(mm.log) < FewChanges /\ \E mode \in ModeValues : PostMode(mode)
  \/ Len(mm.log) < FewChanges /\ \E mode \in ModeValues : PostProfile(mode)
  \/ PostReset
  \/ Len(mm.log) < FewChanges
       /\ \E c \in Sockets, mode \in {StringOf(TransitName), StringOf(KioskName)} :
            WsSetMode(c, mode, AllUp)
  \/ WsJobCompletes
  \/ \E key \in FetchKeyNames : FetchSettles(key)
  \/ AggAssemble

\* the mode changed by HTTP requests and by WebSocket commands while clients
\* are connected
SpecProfile == Init /\ [][NextProfile]_vars

\* the routes that answer with the dashboard
DashboardRoutes ==
  {"GET /api/dashboard", "GET /api/dashboard/data", "GET /api/dashboard/refresh"}

\* the `mode` of the query of GET /api/dashboard/data
QueryValues ==
  {UNDEF, StringOf(KioskName), StringOf(WorkMixedName)}
    \cup {StringOf(name) : name \in {n \in ModeNames : isValidMode(n)}}

NextHttp ==
  \/ \E route \in DashboardRoutes, query \in QueryValues, ups \in {AllUp, AllDown} :
       GetDashboard(route, query, ups)
  \/ GetDashboardResponds
  \/ \E key \in FetchKeyNames : FetchSettles(key)
  \/ \E key \in FetchKeyNames : FetchThrows(key)
  \/ AggAssemble
  \/ Len(mm.log) < FewChanges
       /\ \E mode \in {StringOf(TransitName), StringOf(WorkMixedName)} : PostMode(mode)

\* dashboard requests against fetches that resolve or reject
SpecHttp == Init /\ [][NextHttp]_vars

NextWs ==
  \/ ServerStart
  \/ \E c \in Sockets : Connect(c, AllUp)
  \/ \E c \in Sockets : SocketCloses(c)
  \/ \E c \in Sockets : CloseEvent(c)
  \/ PeriodElapses
  \/ IntervalFires(AllUp)
  \/ CronFires(AllUp)
  \/ \E c \in Sockets : WsRefresh(c, AllUp)
  \/ WsJobCompletes
  \/ CronCompletes
  \/ \E key \in FetchKeyNames : FetchSettles(key)
  \/ AggAssemble
  \/ Len(mm.log) < 1 /\ PostMode(StringOf(TransitName))

\* the periodic updates of the connected clients
SpecWs == Init /\ [][NextWs]_vars

NextSched ==
  \/ Tick
  \/ \E handler \in BOOLEAN : SchedStart(handler)
  \/ SchedStop
  \/ PeriodElapses
  \/ \E ups \in {AllUp, AllDown} : CronFires(ups)
  \/ \E key \in FetchKeyNames : FetchSettles(key)
  \/ AggRejects
  \/ AggAssemble
  \/ CronCompletes

\* the scheduler started and stopped in any order while its ticks come,
\* against aggregations that resolve or reject
SpecSched == Init /\ [][NextSched]_vars

NextOverlap ==
  \/ ServerStart
  \/ \E c \in Sockets : Connect(c, AllUp)
  \/ PeriodElapses
  \/ IntervalFires(AllUp)
  \/ CronFires(AllUp)
  \/ \E c \in Sockets, mode \in {StringOf(TransitName), StringOf(KioskName)} :
       Len(mm.log) < FewChanges /\ WsSetMode(c, mode, AllUp)
  \/ \E c \in Sockets, mode \in {StringOf(TransitName), StringOf(KioskName)} :
       Len(mm.log) < FewChanges /\ WsSetModeMeanwhile(c, mode, AllUp)
  \/ WsJobCompletes
  \/ CronCompletes
  \/ AlsoCompletes
  \/ \E key \in FetchKeyNames : FetchSettles(key)
  \/ AggAssemble

\* setMode commands beside the periodic updates, the mode changing only
\* through the WebSocket and the clients staying connected
SpecOverlap == Init /\ [][NextOverlap]_vars

----------------------------------------------------------------------------
(* Properties of the TTL cache store *)

\* what CacheManager.get(key) returns in the current state
Peek(key) == get(data, key, now).value

\* C3: after set(k, v, t) with t > 0 and no later set, del or flush of k,
\* get(k) returns v at every instant before t seconds have elapsed and a
\* miss at every instant after, whether or not the sweep has run.
C3_TtlExpiry ==
  \A k \in DOMAIN lastSet :
    LET s == lastSet[k]
    IN (s.ttl.given /\ s.ttl.s > 0) =>
         /\ (now < s.at + s.ttl.s * MsPerSec => Peek(k) = s.v)
         /\ (now > s.at + s.ttl.s * MsPerSec => Peek(k) = NULL)

\* C3 witness: a key set with a positive ttl is past its expiry, its entry is
\* still in the store (no sweep has removed it) and get misses.
C3_Witness ==
  \E k \in DOMAIN lastSet :
    /\ lastSet[k].ttl.given /\ lastSet[k].ttl.s > 0
    /\ now > lastSet[k].at + lastSet[k].ttl.s * MsPerSec
    /\ k \in DOMAIN data
    /\ Peek(k) = NULL

\* C4 as stated: set with ttl = 0 or negative stores an entry that never
\* expires; set without ttl stores an entry that expires after the default TTL.
C4_Original ==
  \A k \in DOMAIN lastSet :
    LET s == lastSet[k]
    IN /\ (s.ttl.given /\ s.ttl.s <= 0) => Peek(k) = s.v
       /\ (~s.ttl.given) =>
            /\ (now < s.at + StdTTL * MsPerSec => Peek(k) = s.v)
            /\ (now > s.at + StdTTL * MsPerSec => Peek(k) = NULL)

\* C4 amended: set with ttl = 0 behaves as set without ttl, the entry expires
\* after the default TTL; set with a negative ttl stores an entry that is
\* expired from the start, get misses at every instant.
C4_ZeroTtlIsDefault ==
  \A k \in DOMAIN lastSet :
    LET s == lastSet[k]
    IN /\ (~s.ttl.given \/ s.ttl.s = 0) =>
            /\ (now < s.at + StdTTL * MsPerSec => Peek(k) = s.v)
            /\ (now > s.at + StdTTL * MsPerSec => Peek(k) = NULL)
       /\ (s.ttl.given /\ s.ttl.s < 0) => Peek(k) = NULL

\* C4 witness: a key set with ttl = 0 misses once the default TTL has passed.
C4_Witness ==
  \E k \in DOMAIN lastSet :
    /\ lastSet[k].ttl = Ttl(0)
    /\ now > lastSet[k].at + StdTTL * MsPerSec
    /\ Peek(k) = NULL

----------------------------------------------------------------------------
(* Properties of getOrSet *)

\* seconds an entry stored with ttl (positive or left out) stays valid
TtlSeconds(ttl) == IF ttl.given THEN ttl.s ELSE StdTTL

C5_Step(c) ==
  /\ (gos[c].pc = "idle" /\ gos'[c].pc # "idle") =>
        IF Peek(gos'[c].key) # NULL
          THEN /\ gos'[c].pc = "done"
               /\ gos'[c].value = Peek(gos'[c].key)
               /\ gos'[c].invoked = 0
          ELSE /\ gos'[c].pc = "fetching"
               /\ gos'[c].invoked = 1
  /\ (gos[c].pc = "fetching" /\ gos'[c].pc = "store") => gos'[c].invoked = 1
  /\ (gos[c].pc = "store" /\ gos'[c].pc # "store") =>
        /\ gos'[c].pc = "done"
        /\ gos'[c].value = gos[c].value
        /\ gos'[c].invoked = 1
        /\ IF gos[c].value \in {NULL, UNDEF}
             THEN data' = data
             ELSE data' = Put(data, gos[c].key,
                              [v |-> gos[c].value,
                               t |-> now + TtlSeconds(gos[c].ttl) * MsPerSec])

\* C5: on a hit getOrSet returns the cached value and does not invoke the
\* producer; on a miss it invokes the producer once, returns its result and
\* stores it under the key with the given ttl, unless the result is null or
\* undefined, and then nothing is stored.
C5_GetOrSet == [][\A c \in Callers : C5_Step(c)]_vars

\* C5 witness: one call missed, invoked its producer once and stored the
\* result; the other call hit that entry and invoked nothing.
C5_Witness ==
  \E c, d \in Callers :
    /\ gos[c].pc = "done" /\ ~gos[c].hit /\ gos[c].invoked = 1
    /\ Cacheable(gos[c].value) /\ gos[c].last
    /\ gos[d].pc = "done" /\ gos[d].hit /\ gos[d].invoked = 0
    /\ gos[d].key = gos[c].key /\ gos[d].value = gos[c].value

C6_Step(c) ==
  /\ (gos[c].pc = "fetching" /\ gos'[c].pc \notin {"fetching", "store"}) =>
        /\ gos'[c].pc = "threw"
        /\ data' = data
  /\ (gos[c].pc = "idle" /\ gos'[c].pc = "fetching") =>
        \A k \in CacheKeys : get(data', k, now').value = Peek(k)
  /\ gos[c].pc = "threw" => ~gos[c].last

\* C6: when the producer fails, getOrSet ends by throwing to its caller and
\* the call has changed nothing in the cache: no entry is written for its
\* key and every key reads as it did.
C6_ProducerFailure == [][\A c \in Callers : C6_Step(c)]_vars

\* C6 witness: a call has thrown while another key holds a value.
C6_Witness ==
  \E c \in Callers :
    /\ gos[c].pc = "threw"
    /\ \E k \in DOMAIN data : k # gos[c].key /\ Peek(k) # NULL

\* C7: the key holds the value of the getOrSet call that wrote it last.
C7_LastWriteWins ==
  \A c \in Callers :
    (gos[c].pc = "done" /\ gos[c].last /\ gos[c].key \in DOMAIN data) =>
       data[gos[c].key].v = gos[c].value

\* C7 witness: two calls for one key both missed and both invoked their
\* producer; the first stored its value, the second then replaced that live
\* entry with a different value, which the key now holds.
C7_Witness ==
  \E c, d \in Callers :
    /\ c # d /\ gos[c].key = gos[d].key
    /\ gos[c].pc = "done" /\ ~gos[c].hit /\ gos[c].invoked = 1
    /\ gos[d].pc = "done" /\ ~gos[d].hit /\ gos[d].invoked = 1
    /\ gos[d].last /\ gos[d].over /\ ~gos[c].last
    /\ Cacheable(gos[c].value) /\ gos[c].value # gos[d].value
    /\ Peek(gos[d].key) = gos[d].value

----------------------------------------------------------------------------
(* Properties of the rotation *)

\* the calls c and d were made for the same orientation, filters and slot
SameSlot(c, d) ==
  /\ rot[c].orientation = rot[d].orientation
  /\ filterKey(rot[c].filters) = filterKey(rot[d].filters)
  /\ rot[c].slot = rot[d].slot

\* C1: any two getArtworkByOrientation calls of one orientation and filter set
\* whose instants fall in the same rotation slot return the identical item,
\* also when both start on a cold cache before either has built the pool
\* (stated for calls in which nothing failed).
C1_SameSlotSameItem ==
  \A c, d \in Callers :
    (/\ rot[c].pc = "done" /\ rot[d].pc = "done"
     /\ ~rot[c].fb /\ ~rot[d].fb
     /\ SameSlot(c, d))
      => rot[c].result = rot[d].result

\* C2: a call that has returned and a call made after that in the same
\* rotation slot return the identical item, whatever the upstream sources did
\* during either call.
C2_SequentialSameItem ==
  \A c, d \in Callers :
    (/\ c # d
     /\ rot[c].pc = "done" /\ rot[d].pc = "done"
     /\ rot[d].after
     /\ SameSlot(c, d))
      => rot[c].result = rot[d].result

\* first instant of a rotation slot, and the instant the live entry e was
\* written with the pool's ttl
SlotStart(orientation, slot) == slot * ROTATION_INTERVALS(orientation) * MsPerSec
PoolWrittenAt(e) == e.t - ARTWORK_CACHE_TTL * MsPerSec

\* the pool cached for the call c is live and was written before the first
\* instant of the slot of c: it has not been rebuilt since that slot began
PoolKeptSince(c) ==
  LET pk == poolKey(rot[c].orientation, rot[c].filters)
  IN /\ HasPool(Peek(pk))
     /\ PoolWrittenAt(data[pk]) < SlotStart(rot[c].orientation, rot[c].slot)

C8_Served ==
  \A c \in Callers :
    (rot[c].pc = "done" /\ PoolKeptSince(c)) =>
       LET pool == Peek(poolKey(rot[c].orientation, rot[c].filters))
       IN rot[c].result = pool.items[(rot[c].slot % Len(pool.items)) + 1]

C8_OneStep ==
  \A o \in {"portrait", "landscape"} :
    /\ rotationSlot(o, now + ROTATION_INTERVALS(o) * MsPerSec) = rotationSlot(o, now) + 1
    /\ \A len \in 1..POOL_SIZE :
         poolIndex(rotationSlot(o, now) + 1, len)
           = (poolIndex(rotationSlot(o, now), len) + 1) % len

C8_SlotMonotone ==
  \A o \in {"portrait", "landscape"} : rotationSlot(o, now') >= rotationSlot(o, now)

\* C8: while the cached pool of an orientation is not rebuilt, the item
\* served for slot s is pool[s mod pool.length]; one interval later the slot
\* is s + 1 and the index has moved by one position modulo the pool length;
\* the slot never decreases as time advances.
C8_DeterministicRotation ==
  /\ [](C8_Served /\ C8_OneStep)
  /\ [][C8_SlotMonotone]_vars

\* C8 witness: under one pool of two items, written before both slots began,
\* two calls of consecutive slots have returned the two different items.
C8_Witness ==
  \E c, d \in Callers :
    /\ rot[c].pc = "done" /\ rot[d].pc = "done"
    /\ ~rot[c].fb /\ ~rot[d].fb
    /\ rot[c].orientation = rot[d].orientation
    /\ rot[d].slot = rot[c].slot + 1
    /\ PoolKeptSince(c)
    /\ Len(Peek(poolKey(rot[c].orientation, rot[c].filters)).items) = 2
    /\ rot[c].result # rot[d].result

C9_Step(c) ==
  (rot[c].pc = "awaiting" /\ gos[c].pc = "threw" /\ rot'[c].pc # "awaiting") =>
     LET pool == Peek(poolKey(rot[c].orientation, rot[c].filters))
     IN /\ rot'[c].pc = "done"
        /\ rot'[c].result = IF pool # NULL /\ Len(pool.items) > 0
                              THEN pool.items[1]
                              ELSE NULL

\* C9: a getArtworkByOrientation call in which resolving the slot item failed
\* ends by returning, never by throwing: the first item of the pool cached
\* under the pool key if there is one, else null.
C9_NeverThrows == [][\A c \in Callers : C9_Step(c)]_vars

\* C9 witness: a call whose pool build failed has returned, through the catch
\* block, the first item of a pool another call had cached meanwhile.
C9_Witness ==
  \E c \in Callers :
    /\ rot[c].pc = "done" /\ rot[c].fb
    /\ rot[c].result # NULL
    /\ rot[c].result = Peek(poolKey(rot[c].orientation, rot[c].filters)).items[1]

----------------------------------------------------------------------------
(* Properties of the pool builder *)

\* C10: a pool returned by fetchArtworkPool never holds two items with the
\* same (source, id) pair.
C10_PoolDistinct ==
  (bld.pc = "done" /\ bld.out.kind = "pool") =>
     \A i, j \in 1..Len(bld.out.items) :
        (bld.out.items[i].source = bld.out.items[j].source
           /\ bld.out.items[i].id = bld.out.items[j].id) => i = j

\* C10 witness: a returned pool of two items with the same id from different
\* sources, built in a run where an already seen item came back and was skipped.
C10_Witness ==
  /\ bld.pc = "done" /\ bld.out.kind = "pool"
  /\ Len(bld.out.items) = 2
  /\ bld.out.items[1].id = bld.out.items[2].id
  /\ bld.st.skipped

\* C11: when fetchArtworkPool ends with no item collected it throws and
\* returns no pool; when it ends with at least one item but fewer than
\* poolSize, which happens only with the attempt budget used up, it returns
\* the items collected, without an error.
C11_BuildOutcome ==
  bld.pc = "done" =>
    /\ Len(bld.st.artworks) = 0 => bld.out = Throw
    /\ (Len(bld.st.artworks) > 0 /\ Len(bld.st.artworks) < bld.poolSize) =>
         /\ bld.st.attempt = maxAttempts(bld.poolSize)
         /\ bld.out.kind = "pool"
         /\ bld.out.items = bld.st.artworks

\* C11 witness: a build for two items used its eight attempts and returned
\* one item.
C11_Witness ==
  /\ bld.pc = "done" /\ bld.poolSize = 2
  /\ bld.st.attempt = maxAttempts(2)
  /\ bld.out.kind = "pool" /\ Len(bld.out.items) = 1

\* C12: with pool size 12 (budget 48) and sources that fail on every odd call
\* and return an unseen item on every even call, fetchArtworkPool returns 12
\* distinct items and makes no more than 48 attempts.
C12_OddEvenFullPool ==
  bld.pc = "done" =>
    /\ bld.out.kind = "pool"
    /\ Len(bld.out.items) = 12
    /\ \A i, j \in 1..Len(bld.out.items) : bld.out.items[i] = bld.out.items[j] => i = j
    /\ bld.st.attempt <= 48

\* C12 witness: the build has returned 12 items after 24 attempts.
C12_Witness ==
  /\ bld.pc = "done" /\ bld.poolSize = 12
  /\ bld.out.kind = "pool" /\ Len(bld.out.items) = 12
  /\ bld.st.attempt = 24

----------------------------------------------------------------------------
(* Properties of refreshArtworkPool *)

AllOrientations == {"portrait", "landscape", "tv"}

\* the keys refreshArtworkPool(filters) writes
RefreshKeys(filters) == {poolKey(o, filters) : o \in AllOrientations}

C13_Step ==
  rfr' # rfr =>
    /\ \A k \in (DOMAIN data \cup DOMAIN data') \ RefreshKeys(rfr.filters) :
         /\ k \in DOMAIN data /\ k \in DOMAIN data'
         /\ data'[k] = data[k]
    /\ \A o \in AllOrientations, f \in FilterSets :
         get(data', cacheKey(o, f, rotationSlot(o, now)), now').value
           = Peek(cacheKey(o, f, rotationSlot(o, now)))

\* C13: refreshArtworkPool writes only the pool keys: no step of it creates,
\* overwrites or deletes another entry, and what is cached for the current
\* slot of every orientation reads the same before and after.
C13_RefreshFrame == [][C13_Step]_vars

\* C13 witness: a refresh has cached its pools while the current portrait
\* slot holds a cached item that is not the one the new pool gives that slot.
C13_Witness ==
  LET slot == rotationSlot("portrait", now)
      item == Peek(cacheKey("portrait", NoFilters, slot))
      pool == Peek(poolKey("portrait", NoFilters))
  IN /\ rfr.pc = "done" /\ rfr.result.success
     /\ item # NULL
     /\ HasPool(pool)
     /\ item # PickFromPool(pool, slot)

----------------------------------------------------------------------------
(* Properties of the aggregator's post-processing *)

\* the members of a sequence
Members(seq) == {seq[i] : i \in 1..Len(seq)}

\* C19: filterUrgentTasks returns exactly the tasks that are not completed
\* and are due before now + 24 hours (overdue ones included, ones without a
\* due instant excluded), in ascending order of the due instant; for tasks
\* due at now - 1h, now + 23h, now + 48h and a completed one due at now + 1h
\* it returns the first two in that order.
C19_UrgentTasks ==
  tsk.pc = "done" =>
    /\ Members(tsk.urgent) =
         {task \in Members(tsk.tasks) :
            /\ ~task.completed /\ task.status # "completed"
            /\ task.hasDue
            /\ task.due < tsk.at + 24 * HourMs}
    /\ \A i, j \in 1..Len(tsk.urgent) : tsk.urgent[i] = tsk.urgent[j] => i = j
    /\ \A i, j \in 1..Len(tsk.urgent) : i < j => tsk.urgent[i].due <= tsk.urgent[j].due
    /\ ({task.id : task \in Members(tsk.tasks)} = {"overdue", "soon", "later", "done"}
          => (Len(tsk.urgent) = 2 /\ tsk.urgent[1].id = "overdue"
                /\ tsk.urgent[2].id = "soon"))

\* C19 witness: for the four tasks of the example, given latest first, the
\* overdue task and the one due in 23 hours came back in that order.
C19_Witness ==
  /\ tsk.pc = "done" /\ Len(tsk.tasks) = 4
  /\ tsk.tasks[1].id = "later" /\ tsk.tasks[2].id = "soon"
  /\ tsk.tasks[3].id = "done" /\ tsk.tasks[4].id = "overdue"
  /\ Len(tsk.urgent) = 2
  /\ tsk.urgent[1].id = "overdue" /\ tsk.urgent[2].id = "soon"

----------------------------------------------------------------------------
(* Properties of aggregateDashboard *)

\* the fields a fetched category fills in the dashboard
CategoryFields(key) ==
  CASE key = "weather" -> {"weather"}
    [] key = "transit" -> {"transit"}
    [] key = "calendar" -> {"events"}
    [] key = "tasks" -> {"tasks"}
    [] key = "nextEvent" -> {"nextEvent"}
    [] key = "artwork" -> {"artworkCenter", "artworkRight", "artworkTV"}

\* the value a dashboard field has when nothing could be fetched for it
EmptyField(field) == IF field \in {"events", "tasks"} THEN << >> ELSE NULL

\* the category of a successful fetch is filled from the data of its result
Populated(key) ==
  LET d == agg.dashboard
      r == agg.fetchResults[key].data
  IN CASE key = "weather" ->
            /\ d.weather # NULL
            /\ \A f \in {"temp", "condition", "feelsLike", "humidity", "high", "low",
                         "icon", "description"} : d.weather[f] = r[f]
       [] key = "transit" ->
            /\ d.transit # NULL
            /\ d.transit.buses.east = r.buses.routes.r77.eastbound
            /\ d.transit.buses.west = r.buses.routes.r77.westbound
       [] key = "calendar" -> d.events = r
       [] key = "tasks" ->
            IF getMode(agg.modeName).includes.urgentTasksOnly
              THEN Members(d.tasks) \subseteq Members(r)
              ELSE d.tasks = r
       [] key = "artwork" ->
            /\ d.artworkCenter = r.artworkCenter
            /\ d.artworkRight = r.artworkRight
            /\ d.artworkTV = r.artworkTV

\* C14: for every configured mode and every set F of its fetches that fail,
\* aggregateDashboard does not throw, every fetched category outside F is
\* filled from its result, the errors map has exactly the keys of F and is
\* absent when F is empty, and when F is every fetch all category fields are
\* null or empty.
C14_FailureIsolation ==
  /\ (agg.pc = "threw" => ~isValidMode(agg.modeName))
  /\ agg.pc = "done" =>
       /\ \A key \in agg.launched \ agg.rejected : Populated(key)
       /\ IF agg.rejected = {}
            THEN "errors" \notin DOMAIN agg.dashboard
            ELSE /\ "errors" \in DOMAIN agg.dashboard
                 /\ DOMAIN agg.dashboard.errors = agg.rejected
       /\ agg.rejected = agg.launched =>
            \A field \in DOMAIN agg.dashboard \ {"mode", "timestamp", "errors"} :
               agg.dashboard[field] = EmptyField(field)

\* C14 witness: in the personal mode the transit fetch alone failed; the
\* dashboard has the weather and the events and an errors map with transit only.
C14_Witness ==
  /\ agg.pc = "done" /\ Str(agg.modeName) = "personal"
  /\ agg.rejected = {"transit"}
  /\ agg.dashboard.transit = NULL
  /\ agg.dashboard.weather # NULL
  /\ Len(agg.dashboard.events) > 0
  /\ DOMAIN agg.dashboard.errors = {"transit"}

\* C15: whenever the upstream call behind a fetched category fails during
\* aggregateDashboard, the errors map of the dashboard has an entry for it.
C15_UpstreamFailureReported ==
  agg.pc = "done" =>
    \A key \in agg.launched :
       ~agg.ups[key].ok =>
          /\ "errors" \in DOMAIN agg.dashboard
          /\ key \in DOMAIN agg.dashboard.errors

\* the name of the default mode
DefaultModeName == <<"p", "e", "r", "s", "o", "n", "a", "l">>

\* C16: aggregateDashboard called with a name that is not configured returns
\* the dashboard that the call with the default name returns from the same
\* fetch results, every field equal, the mode field included.
C16_UnknownIsDefault ==
  (agg.pc = "done" /\ ~isValidMode(agg.modeName)) =>
     agg.dashboard = BuildDashboard(DefaultModeName, getMode(DefaultModeName),
                                    agg.fetchResults, agg.dashboard.timestamp)

\* C17: for every name that is not a key of MODES, getMode returns the
\* personal mode and aggregateDashboard does not throw.
C17_ModeResolution ==
  (agg.pc # "idle" /\ ~isValidMode(agg.modeName)) =>
     /\ getMode(agg.modeName) = MODES.personal
     /\ agg.pc # "threw"

\* the mode of the call in progress includes the category
Includes(key) ==
  LET includes == getMode(agg.modeName).includes
  IN key \in DOMAIN includes /\ includes[key]

\* what C18 says of one category
ShownIffIncluded(key) ==
  /\ agg.pc = "done" =>
       IF Includes(key)
         THEN CategoryFields(key) \subseteq DOMAIN agg.dashboard
         ELSE CategoryFields(key) \cap DOMAIN agg.dashboard = {}
  /\ (agg.pc \in {"fetching", "done"} /\ ~Includes(key)) =>
       /\ key \notin agg.launched
       /\ agg.pc = "done" =>
            ("errors" \in DOMAIN agg.dashboard => key \notin DOMAIN agg.dashboard.errors)

\* C18 as stated: for every mode and every data category, artwork among
\* them, the dashboard has the category's fields if and only if the mode
\* includes the category; for an excluded category no fetch is launched and
\* no field and no errors entry appears.
C18_Original ==
  \A key \in {"weather", "transit", "calendar", "tasks", "artwork"} : ShownIffIncluded(key)

\* C18 amended: the above holds for the categories a mode has a flag for
\* (weather, transit, calendar, tasks, and the nextEvent field); artwork has
\* no flag, it is fetched and its three fields are present for every mode.
C18_FlaggedCategories ==
  /\ \A key \in {"weather", "transit", "calendar", "tasks", "nextEvent"} : ShownIffIncluded(key)
  /\ agg.pc \in {"fetching", "done"} => "artwork" \in agg.launched
  /\ agg.pc = "done" => CategoryFields("artwork") \subseteq DOMAIN agg.dashboard

\* C18 witness: in the transit mode, with the calendar upstream failing, the
\* dashboard has the transit and artwork fields and nothing else.
C18_Witness ==
  /\ agg.pc = "done" /\ Str(agg.modeName) = "transit"
  /\ ~agg.ups.calendar.ok
  /\ agg.launched = {"transit", "artwork"}
  /\ DOMAIN agg.dashboard = {"mode", "timestamp", "transit", "artworkCenter",
                             "artworkRight", "artworkTV"}

\* C20: for every mode that includes nextEvent, with the calendar answering,
\* the nextEvent field is the earliest-starting of today's events that has
\* not ended, and null only when the calendar holds no such event.
C20_NextEvent ==
  (/\ agg.pc = "done"
   /\ getMode(agg.modeName).includes.nextEvent
   /\ agg.ups.calendar.ok
   /\ "calendar" \notin agg.rejected) =>
     LET t == agg.dashboard.timestamp
         open == {e \in Members(agg.ups.calendar.payload) :
                    IF e.hasEnd THEN e.end > t ELSE e.start > t}
     IN IF open = {}
          THEN agg.dashboard.nextEvent = NULL
          ELSE /\ agg.dashboard.nextEvent \in open
               /\ \A e \in open : agg.dashboard.nextEvent.start <= e.start

----------------------------------------------------------------------------
(* Properties of the dashboard routes *)

\* C21: every request to GET /api/dashboard, to GET /api/dashboard/data with
\* a configured mode and to GET /api/dashboard/refresh is answered with HTTP
\* 200 and success: true carrying the dashboard, whichever of the category
\* fetches rejected: the failures show in the errors field of the dashboard
\* and never as an HTTP error status
C21_Step ==
  (http.pc = "awaiting" /\ http'.pc = "idle")
    => /\ http'.route \in DashboardRoutes
       /\ isValidMode(agg.modeName)
       /\ http'.response.status = 200
       /\ http'.response.success
       /\ http'.response.body = agg.dashboard
       /\ \A key \in agg.rejected : key \in DOMAIN http'.response.body.errors

C21_AlwaysOk == [][C21_Step]_vars

\* a refresh request answered with 200 although at least two of its category
\* fetches rejected
C21_Witness ==
  /\ http.pc = "idle"
  /\ http.route = "GET /api/dashboard/refresh"
  /\ http.response.status = 200
  /\ "errors" \in DOMAIN http.response.body
  /\ Cardinality(DOMAIN http.response.body.errors) >= 2


----------------------------------------------------------------------------
(* Properties of the mode state *)

\* a name of a configured mode, in any letter case
Configured(name) ==
  Str(toLowerCase(name)) \in {"personal", "guest", "transit", "morning", "work", "gallery"}

\* a request value that names a configured mode
NamesMode(mode) == mode.kind = "string" /\ Configured(mode.chars)

\* the mode state: current mode, instant of the last change, change history
ModeState(m) == <<m.currentMode, m.lastChanged, m.changeHistory>>

\* C22: setMode with a name that is not a configured mode returns success:
\* false and leaves currentMode, lastChanged and the change history as they
\* were; POST /api/dashboard/mode and POST /api/profile with an invalid or
\* missing mode answer HTTP 400 and leave the mode state as it was
C22_Step ==
  /\ (mm'.result # mm.result /\ mm'.result # NULL
        /\ ~mm'.result.success /\ ~Configured(mm'.result.error))
       => ModeState(mm') = ModeState(mm)
  /\ ModeState(mm') # ModeState(mm)
       => mm'.result.success /\ Configured(mm'.currentMode)
  /\ (http' # http /\ http'.route \in {"POST /api/dashboard/mode", "POST /api/profile"}
        /\ ~NamesMode(http'.request))
       => /\ http'.response.status = 400
          /\ ~http'.response.success
          /\ ModeState(mm') = ModeState(mm)

C22_InvalidModeRejected == [][C22_Step]_vars

\* after a mode change and some time, a setMode call with an invalid name
\* has failed and a POST /api/profile without a mode was answered with 400
C22_Witness ==
  /\ Len(mm.changeHistory) = 1
  /\ now > mm.lastChanged
  /\ mm.result # NULL
  /\ ~mm.result.success
  /\ http.route = "POST /api/profile"
  /\ http.response.status = 400


\* C23: after any sequence of setMode calls the change history has at most
\* 10 entries and holds, in order, the most recent min(n, 10) of the n
\* successful changes, each with its from and to: the oldest entry is the
\* one dropped when an eleventh is added
C23_BoundedHistory ==
  LET n == Len(mm.log)
      k == IF n < HistoryMax THEN n ELSE HistoryMax
  IN /\ Len(mm.changeHistory) <= HistoryMax
     /\ Len(mm.changeHistory) = k
     /\ \A i \in 1..k :
          /\ mm.changeHistory[i].from = mm.log[n - k + i].from
          /\ mm.changeHistory[i].to = mm.log[n - k + i].to

\* twelve successful changes: the first two have been dropped
C23_Witness ==
  /\ Len(mm.log) = HistoryMax + 2
  /\ Len(mm.changeHistory) = HistoryMax
  /\ mm.changeHistory[1].to # mm.log[1].to


----------------------------------------------------------------------------
(* Properties of the WebSocket events *)

\* the event was sent to the socket by the latest stretch of handler code
SentTo(w, c, event, d) ==
  \E i \in 1..Len(w.out[c]) : w.out[c][i].event = event /\ w.out[c][i].data = d

\* C24: whenever the current mode changes, by a WebSocket setMode command,
\* POST /api/dashboard/mode, POST /api/profile or POST /api/profile/reset,
\* every open WebSocket client is sent a profile:changed event carrying the
\* new profile
C24_Step ==
  mm'.currentMode # mm.currentMode
    => \A c \in Reached(ws') : SentTo(ws', c, "profile:changed", getProfile(mm'))

C24_ProfileChangeBroadcast == [][C24_Step]_vars


\* C25: the periodic dashboard:update comes from one timer: within one
\* 30-second period no client is sent more than one periodic
\* dashboard:update event
C25_OneUpdatePerTick == \A c \in Sockets : ws.updates[c] <= 1

----------------------------------------------------------------------------
(* Properties of the pool builder's loop, delays and source selection *)

\* C26 (bounds): a fetchArtworkPool call never makes more than poolSize x 4
\* fetch attempts and never holds or returns more than poolSize items
C26_Bounded ==
  /\ bld.st.attempt <= bld.poolSize * 4
  /\ Len(bld.st.artworks) <= bld.poolSize
  /\ (bld.pc = "done" /\ bld.out # Throw) => Len(bld.out.items) <= bld.poolSize

\* C26: whatever the sources do on each attempt (fail, return a duplicate,
\* return an imageless item, return a new item), every fetchArtworkPool call
\* terminates after at most poolSize x 4 fetch attempts, and the returned
\* pool never has more than poolSize items
C26_PoolBuildTerminates ==
  /\ []C26_Bounded
  /\ (bld.pc \in {"loop", "sleep"}) ~> (bld.pc = "done")

\* a call that used all its poolSize x 4 attempts, skipped some item, and
\* returned a pool short of poolSize
C26_Witness ==
  /\ bld.pc = "done" /\ bld.poolSize = 2
  /\ bld.st.attempt = 8 /\ bld.st.skipped
  /\ bld.out # Throw /\ Len(bld.out.items) = 1

\* the pass being made pushed an item
Added == Len(bld'.st.artworks) = Len(bld.st.artworks) + 1

\* the pass being made ends in `await sleep(RETRY_DELAY)`
Delayed == bld'.pc = "sleep"

\* a sleeping call does nothing but wake up, once, into the loop test
OneWait == bld.pc = "sleep" => (bld'.pc = "loop" /\ bld'.st = bld.st)

C27_StepAsStated ==
  /\ \A roll \in Rolls(enabledSources(ArtSources)), resp \in AllResponses :
        PoolAttempt(roll, resp) => ((Added \/ resp.kind = "throw") => Delayed)
  /\ OneWait

\* C27 as stated: every addition of an item, the one that completes the pool
\* included, and every failed attempt is followed by one retry delay
C27_EveryAdditionDelayed == [][C27_StepAsStated]_vars

C27_Step ==
  /\ \A roll \in Rolls(enabledSources(ArtSources)), resp \in AllResponses :
        PoolAttempt(roll, resp) =>
          (Delayed <=> \/ resp.kind = "throw"
                       \/ Added /\ Len(bld'.st.artworks) < bld.poolSize)
  /\ OneWait

\* C27 (amended): an addition that leaves the pool short of poolSize and an
\* attempt whose fetch throws are each followed by one retry delay; the
\* addition that completes the pool and a skipped item (duplicate, imageless)
\* are followed by none
C27_DelayUnlessComplete == [][C27_Step]_vars

\* a pool of two completed on the fourth pass, with no delay after the
\* completing addition
C27_Witness ==
  /\ bld.pc = "loop" /\ bld.poolSize = 2
  /\ Len(bld.st.artworks) = 2 /\ bld.st.attempt = 4
  /\ ~bld.st.sleep

\* the sum of the weights of the first i entries
RECURSIVE CumulativeWeight(_, _)
CumulativeWeight(entries, i) ==
  IF i = 0 THEN 0 ELSE entries[i].weight + CumulativeWeight(entries, i - 1)

\* the keys a configuration enables
EnabledKeys(srcs) == {srcs[i].key : i \in {j \in DOMAIN srcs : srcs[j].enabled}}

\* C28: for every draw, pickWeightedSource returns the first source, in
\* configured order, whose cumulative weight is >= the draw; the source it
\* returns is an enabled one, and a build fetches only from enabled sources
C28_WeightedPick ==
  /\ pick.pc = "done" =>
       LET entries == enabledSources(pick.sources)
           first == CHOOSE i \in 1..Len(entries) :
                      /\ CumulativeWeight(entries, i) >= pick.roll
                      /\ \A j \in 1..(i - 1) : CumulativeWeight(entries, j) < pick.roll
       IN /\ pick.key = entries[first].key
          /\ pick.key \in EnabledKeys(pick.sources)
  /\ bld.picked # "-" => bld.picked \in EnabledKeys(bld.sources)

\* with artic disabled and met and giphy enabled, the top draw selects giphy
C28_Witness ==
  /\ pick.pc = "done"
  /\ ~pick.sources[1].enabled /\ pick.sources[2].enabled /\ pick.sources[3].enabled
  /\ pick.sources[2].weight = 2 /\ pick.sources[3].weight = 2
  /\ pick.roll = 3 /\ pick.key = "giphy"

\* the sum of the configured weights of the enabled sources
RECURSIVE ConfiguredWeight(_, _)
ConfiguredWeight(srcs, i) ==
  IF i > Len(srcs) THEN 0
  ELSE (IF srcs[i].enabled THEN srcs[i].weight ELSE 0) + ConfiguredWeight(srcs, i + 1)

\* C29: when the weights of the enabled sources sum to zero (no source
\* enabled, or every enabled source configured with weight 0), the build
\* fails at once: no fetch attempt is made and there is no retry
C29_NoWeightNoBuild ==
  (bld.pc # "idle" /\ ConfiguredWeight(bld.sources, 1) = 0) =>
     /\ bld.pc = "done" /\ bld.out = Throw
     /\ bld.st.attempt = 0

----------------------------------------------------------------------------
(* Properties of the cached pools *)

\* the pool cache keys of every orientation and filter set in use
PoolCacheKeys == {poolKey(o, f) : o \in AllOrientations, f \in FilterSets}

\* every value under a pool cache key is a non-empty sequence of items
C30_PoolsNonEmpty ==
  \A k \in DOMAIN data \cap PoolCacheKeys :
     /\ data[k].v # NULL /\ data[k].v # UNDEF
     /\ Len(data[k].v.items) > 0

\* when a lookup takes its slot pick, the pool it takes it from is the one
\* under the pool key, the index slot mod length is defined, and the pick is
\* the pool's element at that index
C30_Step ==
  \A c \in Callers :
     (gos[c].pc # "store" /\ gos'[c].pc = "store") =>
        LET k == poolKey(rot'[c].orientation, rot'[c].filters)
            items == data'[k].v.items
        IN /\ k \in DOMAIN data'
           /\ Len(items) > 0
           /\ \E i \in 1..Len(items) :
                 /\ i - 1 = rot'[c].slot % Len(items)
                 /\ gos'[c].value = items[i]

\* C30: every value stored under a pool cache key, by getArtworkByOrientation
\* or by refreshArtworkPool, is a non-empty sequence of items, so the index
\* slot mod pool.length is always defined and the slot pick is always an
\* element of the pool it was taken from
C30_SlotPickFromPool == []C30_PoolsNonEmpty /\ [][C30_Step]_vars

\* a lookup holding its slot pick while all three pool keys hold pools, the
\* portrait pool being one of a single item
C30_Witness ==
  /\ \E c \in Callers : gos[c].pc = "store" /\ gos[c].value # NULL
  /\ PoolCacheKeys \subseteq DOMAIN data
  /\ Len(data[poolKey("portrait", NoFilters)].v.items) = 1

----------------------------------------------------------------------------
(* Properties of the rotation lookup's use of its caches *)

\* the key holds an entry whose expiry instant has not passed
Unexpired(k) == k \in DOMAIN data /\ (data[k].t = 0 \/ data[k].t >= now)

C31_Step ==
  \A c \in Callers :
     LET o == rot'[c].orientation
         f == rot'[c].filters
         sk == cacheKey(o, f, rot'[c].slot)
         pk == poolKey(o, f)
         poolCached == Unexpired(pk) /\ Len(data[pk].v.items) > 0
     IN /\ (rot[c].pc = "idle" /\ rot'[c].pc # "idle") =>
             /\ Unexpired(sk) =>
                   /\ gos'[c].hit /\ gos'[c].invoked = 0
                   /\ gos'[c].value = data[sk].v
                   /\ rot'[c].pc # "building"
                   /\ pk \in DOMAIN data => pk \in DOMAIN data'
             /\ (~Unexpired(sk) /\ poolCached) =>
                   /\ rot'[c].pc # "building"
                   /\ gos'[c].pc = "store"
                   /\ data'[pk] = data[pk]
             /\ rot'[c].pc = "building" => (~Unexpired(sk) /\ ~poolCached)
        /\ (rot[c].pc = "building" /\ gos'[c].pc = "store") =>
             /\ pk \in DOMAIN data'
             /\ data'[pk].v.kind = "pool"
             /\ data'[pk].t = now + ARTWORK_CACHE_TTL * MsPerSec

\* C31: a lookup that hits the slot entry makes no pool lookup and no pool
\* build; one that misses the slot entry but finds an unexpired non-empty
\* pool makes no build; a build is started only when the pool key is absent,
\* expired or empty, and the built pool is cached with the pool TTL
C31_NoRefetchWhileCached == [][C31_Step]_vars

\* a lookup that took its pick from a pool cached before its slot began
C31_Witness ==
  \E c \in Callers :
     LET pk == poolKey(rot[c].orientation, rot[c].filters)
     IN /\ rot[c].pc = "awaiting" /\ gos[c].pc = "store"
        /\ pk \in DOMAIN data
        /\ rot[c].slot * IntervalPortrait * MsPerSec
              > data[pk].t - ARTWORK_CACHE_TTL * MsPerSec

\* the step that ends a refreshArtworkPool call
C32_Step ==
  (rfr.pc = "building" /\ rfr'.pc = "done") =>
     IF rfr'.result.success
       THEN \A k \in RefreshKeys(rfr.filters) :
              /\ k \in DOMAIN data'
              /\ data'[k].v \in PoolsBuilt
              /\ data'[k].t = now + ARTWORK_CACHE_TTL * MsPerSec
       ELSE /\ data' = data
            /\ rfr'.result = [success |-> FALSE]

\* C32: refreshArtworkPool is all-or-nothing: when a build of one of the
\* three orientations fails no pool key is written and the call returns
\* success:false without throwing; when all three succeed all three pool
\* keys are replaced by the pools just built
C32_AllOrNothing == [][C32_Step]_vars

\* a refresh that failed while the three pool keys hold the pools of an
\* earlier refresh
C32_Witness ==
  /\ rfr.pc = "done" /\ ~rfr.result.success
  /\ RefreshKeys(rfr.filters) \subseteq DOMAIN data

----------------------------------------------------------------------------
(* Properties of the events a mode change sends *)

IsProfileChanged(e) == e.event = "profile:changed"

\* the profile:changed events the step being taken sends to socket c
ProfileEvents(c) == SelectSeq(ws'.out[c], IsProfileChanged)

C33_Step ==
  (ws'.job.kind = "setMode" /\ ws.job.kind # "setMode") =>
     \A c \in Reached(ws) :
        /\ Len(ProfileEvents(c)) = 1
        /\ ProfileEvents(c)[1].data = getProfile(mm')

\* C33: on a successful WebSocket setMode command every open client, the
\* requester included, is sent exactly one profile:changed for the change
\* (the requester its confirmation, the others the broadcast)
C33_OneProfileChangedEach == [][C33_Step]_vars

\* the dashboard:update events the step being taken sends to socket c
IsDashboardUpdate(e) == e.event = "dashboard:update"
DashboardEvents(c) == SelectSeq(ws'.out[c], IsDashboardUpdate)

C34_Step ==
  \A c \in Sockets :
     (Len(DashboardEvents(c)) > 0 /\ ws.profile[c] # << >>) =>
        \A i \in 1..Len(DashboardEvents(c)) :
           DashboardEvents(c)[i].data.mode = ws.profile[c]

\* C34: every dashboard:update event sent to a client after a profile:changed
\* event for mode M, and before the next profile:changed event, carries a
\* composite computed for mode M, also when an aggregation was already in
\* flight when the mode changed
C34_UpdatesFollowProfile == [][C34_Step]_vars

----------------------------------------------------------------------------
(* Properties of the mode history and of the refresh scheduler *)

\* C35: after any sequence of setMode and reset operations each history
\* entry's from equals the previous entry's to, and the to of the last entry
\* of a non-empty history equals the current mode
C35_HistoryConsistent ==
  LET h == mm.changeHistory
  IN /\ \A i \in 2..Len(h) : h[i].from = h[i - 1].to
     /\ Len(h) > 0 => h[Len(h)].to = mm.currentMode

\* at most one scheduled task exists, and isRunning tells whether one does
C36_OneTask ==
  /\ sch.live <= 1
  /\ sch.isRunning <=> sch.live = 1
  /\ sch.isRunning <=> sch.schedulerTask

\* the scheduler apart from what its last call returned
SchedulerState(s) == [s EXCEPT !.result = "-"]

C36_Step ==
  /\ \A handler \in BOOLEAN :
        SchedStart(handler) =>
          IF sch.isRunning
            THEN sch'.result = "false" /\ SchedulerState(sch') = SchedulerState(sch)
            ELSE sch'.result = "true" /\ sch'.live = sch.live + 1
  /\ SchedStop =>
        IF sch.isRunning
          THEN sch'.result = "true" /\ sch'.live = sch.live - 1
          ELSE sch'.result = "false" /\ SchedulerState(sch') = SchedulerState(sch)

\* C36: after any sequence of start and stop calls at most one scheduled
\* task exists and isRunning is true exactly when a task exists; start while
\* running returns false and creates no second task, stop while not running
\* returns false and changes nothing
C36_SchedulerStateMachine == []C36_OneTask /\ [][C36_Step]_vars

\* start was called on a running scheduler that had performed a refresh, and
\* returned false
C36_Witness ==
  /\ sch.isRunning /\ sch.result = "false" /\ sch.live = 1
  /\ sch.refreshCount > 0

\* the step that ends a performRefresh call
C37_Step ==
  (sch.pc = "refreshing" /\ sch'.pc # "refreshing") =>
     /\ sch'.pc = "idle"
     /\ sch'.isRunning = sch.isRunning
     /\ sch'.schedulerTask = sch.schedulerTask /\ sch'.live = sch.live
     /\ IF agg.pc = "threw"
          THEN /\ sch'.errorCount = sch.errorCount + 1
               /\ sch'.refreshCount = sch.refreshCount
               /\ sch'.lastRefreshTime = sch.lastRefreshTime
               /\ ws'.out = NoneSent
          ELSE /\ sch'.refreshCount = sch.refreshCount + 1
               /\ sch'.errorCount = sch.errorCount
               /\ sch'.lastRefreshTime = TimeAt(now)

\* C37: a scheduler refresh never propagates an error and never stops the
\* scheduler: a refresh that fails increments errorCount by one and leaves
\* refreshCount, lastRefreshTime and isRunning unchanged, one that succeeds
\* increments refreshCount by one and leaves errorCount unchanged, and the
\* scheduled task is as it was, so the next tick runs a refresh again
C37_RefreshNeverStops == [][C37_Step]_vars

\* a running scheduler that has performed one refresh and failed another
\* while time passed
C37_Witness ==
  /\ sch.isRunning /\ sch.pc = "idle"
  /\ sch.refreshCount = 1 /\ sch.errorCount = 1
  /\ sch.lastRefreshTime = TimeAt(StartNow)
  /\ now > StartNow

----------------------------------------------------------------------------
(* Properties of the cached weather *)

C38_Step ==
  \A c \in Callers :
     /\ (gos[c].pc = "idle" /\ gos'[c].pc # "idle" /\ Unexpired(WeatherKey)) =>
          /\ gos'[c].hit /\ gos'[c].invoked = 0
          /\ gos'[c].value = data[WeatherKey].v
     /\ WeatherFetched(c, Upstream(FALSE, NULL)) =>
          gos'[c].value = FallbackWeatherAt(now)
     /\ (gos[c].pc = "store" /\ gos'[c].pc = "done") =>
          data'[WeatherKey] = [v |-> gos[c].value, t |-> now + 600 * MsPerSec]

\* C38: when the weather request fails on a cache miss the call gets the
\* fallback record, the fallback is stored under weather:current with a TTL
\* of 600 s, and until that entry expires every call is answered from it
\* without an upstream request, whatever the upstream would answer
C38_FallbackCached == [][C38_Step]_vars

\* ten minutes after a failed request a call is still answered with the
\* fallback record cached then
C38_Witness ==
  \E c \in Callers :
     /\ gos[c].pc = "done" /\ gos[c].hit
     /\ gos[c].value = FallbackWeatherAt(StartNow)
     /\ now = StartNow + 600 * MsPerSec

====
